---- MODULE Spec2Model ----
(***************************************************************************)
(* Model of the interaction-log management of the computer-use agent:      *)
(* src/agent/agent.py (_pair_reasoning_calls, _compact_base,               *)
(* _enforce_cua_via_pairs, _force_include_reasoning_and_call,              *)
(* Agent.handle_item, Agent.run_full_turn).                                *)
(*                                                                         *)
(* A log item is a record holding the fields the code inspects             *)
(* (type, role, call_id, id); 0 stands for an absent call_id / id.         *)
(* A request is a sequence of POSITIONS of the full log: Python requests   *)
(* hold references to the log's objects, so a position is the object's     *)
(* identity (`is`, id()), while `==`, `in` and list.index compare the      *)
(* records found at the positions.                                         *)
(***************************************************************************)
EXTENDS Integers, Sequences, FiniteSets, TLC

\* ---------------------------------------------------------------- bounds
MaxLen == 4          \* longest full log given to the pure functions
MaxCand == 3         \* longest hand-made candidate given to the Enforcer
MaxKeepTail == 3     \* largest keep_tail given to _compact_base
MaxKeepImages == 1   \* largest keep_images given to _compact_base
MaxLog == 7          \* longest session log the turn loop is run to
MaxBatch == 2        \* most items in one service response
MaxCuaLog == 9       \* longest log of a turn of computer-use items only
MaxCuaBatch == 4     \* most items in one response of such a turn
MaxTurnLog == 5      \* items of the log of the one-turn runs
MaxTurnBatch == 2    \* items of a response of the one-turn runs

\* ------------------------------------------------------ program constants
KeepImages == 1      \* keep_images of every _compact_base call of the loop
KeepTail == 1        \* keep_tail of the first request (30 in the source)
WideTail == 2        \* keep_tail of a widened retry (80 in the source)
max_retries == 3     \* targeted retries of one send
MAX_RETRIES == 5     \* posts of one create_response call (RESP_MAX_RETRIES)

VARIABLES
    \* Agent.run_full_turn and its caller
    input_items,     \* the caller's list: earlier turns and the user message
    new_items,       \* items accumulated by the running turn
    next_input,      \* the request about to be passed to create_response
    attempt,         \* targeted retries made for the current send
    built_by,        \* what built next_input: "first", retry "A" or "B"
    out,             \* response["output"] being dispatched
    out_idx,         \* position of the `for item in out` loop
    request_stop,    \* Agent.request_stop
    pc,              \* where run_full_turn stands
    cr_attempt,      \* create_response: `attempt` of its for loop, 0 outside
    msg,             \* class of the message run_full_turn prints on giving up
    \* direct calls of the pure functions
    fn_all_items,    \* full log given to the functions
    fn_request,      \* candidate given to the Enforcer
    fn_keep,         \* <<keep_images, keep_tail>> that built the candidate
    fn_result,       \* _enforce_cua_via_pairs(fn_all_items, fn_request)
    fn_again,        \* the Enforcer applied to its own result
    fn_request_left, \* the candidate list as the Enforcer's call leaves it
    fn_pc,           \* which calls have been made
    \* one call of Agent.handle_item
    h_item,          \* the response item passed to handle_item
    h_env,           \* what the item and the computer are like at the call
    h_result,        \* how the call ended: what it returned, or raised
    h_pc,            \* whether the call has been made
    \* one use of a helper of utils.py on a list of items
    u_items,         \* the items passed in
    u_result,        \* how the use ended
    u_pc,            \* whether the helper has been used
    \* one BasePlaywrightComputer and the browser it drives
    p_browser,       \* whether self._browser is connected
    p_context,       \* whether self._context is open
    p_page,          \* whether self._page is open
    p_other_pages,   \* URLs of the other open pages of the context
    p_url,           \* the URL the active page shows
    p_shutting_down, \* self._shutting_down
    p_home_url,      \* self._home_url
    p_gotos,         \* the URLs passed to goto so far, in call order
    p_call,          \* the last method called and what it was given
    p_result         \* how that call ended and what it did to the page

turn_vars == <<input_items, new_items, next_input, attempt, built_by,
               out, out_idx, request_stop, pc, cr_attempt, msg>>
fn_vars == <<fn_all_items, fn_request, fn_keep, fn_result, fn_again,
             fn_request_left, fn_pc>>
h_vars == <<h_item, h_env, h_result, h_pc>>
u_vars == <<u_items, u_result, u_pc>>
p_vars == <<p_browser, p_context, p_page, p_other_pages, p_url,
            p_shutting_down, p_home_url, p_gotos, p_call, p_result>>
\* What the steps of a turn, the function calls, a call of handle_item and
\* a use of a helper leave alone.
non_turn_vars == <<fn_vars, h_vars, u_vars, p_vars>>
non_fn_vars == <<turn_vars, h_vars, u_vars, p_vars>>
non_handle_vars == <<turn_vars, fn_vars, u_vars, p_vars>>
non_utils_vars == <<turn_vars, fn_vars, h_vars, p_vars>>
non_playwright_vars == <<turn_vars, fn_vars, h_vars, u_vars>>
vars == <<turn_vars, fn_vars, h_vars, u_vars, p_vars>>

\* ----------------------------------------------------------------- items
Item(t, r, c, i) == [type |-> t, role |-> r, call_id |-> c, id |-> i]

UserMsg == Item("message", "user", 0, 0)
AssistantMsg == Item("message", "assistant", 0, 0)
Reasoning(i) == Item("reasoning", "", 0, i)
ComputerCall(c) == Item("computer_call", "", c, 0)
ComputerCallOutput(c) == Item("computer_call_output", "", c, 0)
FunctionCall(c) == Item("function_call", "", c, 0)
FunctionCallOutput(c) == Item("function_call_output", "", c, 0)
InputImage == Item("input_image", "", 0, 0)

\* ------------------------------------------------------- list primitives
\* list.insert(p, x) with p counted from 1: x lands at position p.
InsertAt(s, p, x) == SubSeq(s, 1, p - 1) \o <<x>> \o SubSeq(s, p, Len(s))

\* list.pop(p) with p counted from 1.
RemoveAt(s, p) == SubSeq(s, 1, p - 1) \o SubSeq(s, p + 1, Len(s))

\* Smallest member of a non-empty set of numbers.
Min(S) == CHOOSE x \in S : \A y \in S : x <= y

\* Largest member of a non-empty set of numbers.
Max(S) == CHOOSE x \in S : \A y \in S : x >= y

\* `x in request` for a log object x: Python compares the dicts with ==.
InReq(all_items, request, x) ==
    \E k \in 1..Len(request) : all_items[request[k]] = all_items[x]

\* request.index(x): the first position holding a dict equal to x.
IndexOf(all_items, request, x) ==
    Min({k \in 1..Len(request) : all_items[request[k]] = all_items[x]})

\* ------------------------------------------------ _pair_reasoning_calls
\* callid_to_reasoning.get(cid): the position in the full log of the
\* reasoning item recorded for call id cid (the last pair scanned wins),
\* 0 when no pair was recorded.
CallidToReasoning(all_items, cid) ==
    LET P == {i \in 1..(Len(all_items) - 1) :
                 /\ all_items[i].type = "reasoning"
                 /\ all_items[i + 1].type = "computer_call"
                 /\ all_items[i + 1].call_id = cid
                 /\ all_items[i + 1].call_id # 0
                 /\ all_items[i].id # 0}
    IN IF P = {} THEN 0 ELSE Max(P)

\* --------------------------------------------------------- _compact_base
\* Mutant of TailStart: the slice ignores keep_tail and takes the whole log.
TailStartWhole(n, keep_tail) == 1

\* First position of all_items[-keep_tail:]; -0 is 0, so keep_tail = 0
\* slices from the start of the list.
TailStart(n, keep_tail) ==
    IF keep_tail = 0 \/ keep_tail >= n THEN 1 ELSE n - keep_tail + 1

\* Mutant of LastUser: the scan is not reversed and finds the first user
\* message.
LastUserFirst(all_items) ==
    LET U == {i \in 1..Len(all_items) :
                 all_items[i].type = "message" /\ all_items[i].role = "user"}
    IN IF U = {} THEN 0 ELSE Min(U)

\* Position of the latest user message of the log, 0 when there is none.
LastUser(all_items) ==
    LET U == {i \in 1..Len(all_items) :
                 all_items[i].type = "message" /\ all_items[i].role = "user"}
    IN IF U = {} THEN 0 ELSE Max(U)

\* The sequence s without the positions listed in the set D.
RECURSIVE Without(_, _)
Without(s, D) ==
    IF s = <<>> THEN <<>>
    ELSE IF Head(s) \in D THEN Without(Tail(s), D)
         ELSE <<Head(s)>> \o Without(Tail(s), D)

\* The members of s whose log item has type t, in order.
RECURSIVE OfType(_, _, _)
OfType(all_items, s, t) ==
    IF s = <<>> THEN <<>>
    ELSE IF all_items[Head(s)].type = t
         THEN <<Head(s)>> \o OfType(all_items, Tail(s), t)
         ELSE OfType(all_items, Tail(s), t)

\* imgs[:-keep_images] as a set of objects; [:-0] is the empty slice.
DropImages(imgs, keep_images) ==
    IF keep_images = 0 THEN {}
    ELSE {imgs[k] : k \in 1..(Len(imgs) - keep_images)}

_compact_base(all_items, keep_images, keep_tail) ==
    IF all_items = <<>> THEN <<>>
    ELSE
      LET n == Len(all_items)
          tail0 == [k \in 1..(n - TailStart(n, keep_tail) + 1) |->
                        TailStart(n, keep_tail) + k - 1]
          last_user == LastUser(all_items)
          tail1 == IF last_user # 0 /\ ~InReq(all_items, tail0, last_user)
                   THEN <<last_user>> \o tail0
                   ELSE tail0
          imgs == OfType(all_items, tail1, "input_image")
      IN IF Len(imgs) > keep_images
         THEN Without(tail1, DropImages(imgs, keep_images))
         ELSE tail1

\* ------------------------------------------------ _enforce_cua_via_pairs
\* call_ids of the request's items of type t.
CallIds(all_items, request, t) ==
    {all_items[request[k]].call_id :
        k \in {j \in 1..Len(request) : all_items[request[j]].type = t}}

\* Position in the request of the first computer_call_output with call id
\* cid; len(request), i.e. the position after the end, when there is none.
FirstOutIdx(all_items, request, cid) ==
    LET O == {k \in 1..Len(request) :
                 /\ all_items[request[k]].type = "computer_call_output"
                 /\ all_items[request[k]].call_id = cid}
    IN IF O = {} THEN Len(request) + 1 ELSE Min(O)

\* Step 1, the scan `for it in all_items` from log position k on: every
\* computer_call of the log whose call id is missing is inserted in front
\* of the first output carrying that call id.
RECURSIVE InsertMissingCalls(_, _, _, _)
InsertMissingCalls(all_items, request, missing, k) ==
    IF k > Len(all_items) THEN request
    ELSE IF /\ all_items[k].type = "computer_call"
            /\ all_items[k].call_id \in missing
         THEN InsertMissingCalls(
                  all_items,
                  InsertAt(request,
                           FirstOutIdx(all_items, request, all_items[k].call_id),
                           k),
                  missing, k + 1)
         ELSE InsertMissingCalls(all_items, request, missing, k + 1)

\* Mutant of EnsureCalls: step 1 is left out.
EnsureCallsSkipped(all_items, request) == request

\* Step 1: ensure each output has its call.
EnsureCalls(all_items, request) ==
    LET needed == CallIds(all_items, request, "computer_call_output") \ {0}
        have == CallIds(all_items, request, "computer_call")
    IN IF needed \ have # {}
       THEN InsertMissingCalls(all_items, request, needed \ have, 1)
       ELSE request

\* Step 2, the `while i < len(request)` loop from position i on: the
\* paired reasoning of each computer_call is inserted at the call's
\* position, or popped from where it stands and inserted at position i.
RECURSIVE PlaceReasoning(_, _, _)
PlaceReasoning(all_items, request, i) ==
    IF i > Len(request) THEN request
    ELSE IF all_items[request[i]].type # "computer_call"
         THEN PlaceReasoning(all_items, request, i + 1)
    ELSE
      LET r == CallidToReasoning(all_items, all_items[request[i]].call_id)
      IN IF r = 0 THEN PlaceReasoning(all_items, request, i + 1)
         ELSE IF ~InReq(all_items, request, r)
              THEN PlaceReasoning(all_items, InsertAt(request, i, r), i + 2)
         ELSE IF IndexOf(all_items, request, r) # i - 1
              THEN PlaceReasoning(
                       all_items,
                       InsertAt(RemoveAt(request, IndexOf(all_items, request, r)),
                                i, r),
                       i + 2)
         ELSE PlaceReasoning(all_items, request, i + 1)

\* Step 3, from position j on: a reasoning item is kept only when the next
\* item of the request is a computer_call.
RECURSIVE DropOrphans(_, _, _)
DropOrphans(all_items, request, j) ==
    IF j > Len(request) THEN <<>>
    ELSE IF /\ all_items[request[j]].type = "reasoning"
            /\ ~(/\ j + 1 <= Len(request)
                 /\ all_items[request[j + 1]].type = "computer_call")
         THEN DropOrphans(all_items, request, j + 1)
         ELSE <<request[j]>> \o DropOrphans(all_items, request, j + 1)

_enforce_cua_via_pairs(all_items, request) ==
    IF request = <<>> THEN <<>>
    ELSE DropOrphans(all_items,
                     PlaceReasoning(all_items, EnsureCalls(all_items, request), 1),
                     1)

\* ------------------------------------- _force_include_reasoning_and_call
\* Position of the first reasoning item of the log with id rs_id, 0 if none.
FindReasoning(all_items, rs_id) ==
    LET R == {i \in 1..Len(all_items) :
                 all_items[i].type = "reasoning" /\ all_items[i].id = rs_id}
    IN IF R = {} THEN 0 ELSE Min(R)

\* all_items.index(x): first position of the log holding a dict equal to x.
LogIndex(all_items, x) ==
    Min({i \in 1..Len(all_items) : all_items[i] = all_items[x]})

\* Position of the next computer_call after log position p, 0 if none.
NextCallAfter(all_items, p) ==
    LET C == {j \in (p + 1)..Len(all_items) :
                 all_items[j].type = "computer_call"}
    IN IF C = {} THEN 0 ELSE Min(C)

\* Mutant of _force_include_reasoning_and_call: the existing copies of the
\* pair are not removed before the pair is inserted.
ForceIncludeKeepingCopies(all_items, request, rs_id) ==
    IF rs_id = 0 THEN request
    ELSE
      LET rs_item == FindReasoning(all_items, rs_id)
      IN IF rs_item = 0 THEN request
         ELSE
           LET call_item == NextCallAfter(all_items, LogIndex(all_items, rs_item))
           IN IF call_item = 0 THEN request
              ELSE
                LET first_out_idx == FirstOutIdx(all_items, request,
                                                 all_items[call_item].call_id)
                IN InsertAt(InsertAt(request, first_out_idx, call_item),
                            first_out_idx, rs_item)

_force_include_reasoning_and_call(all_items, request, rs_id) ==
    IF rs_id = 0 THEN request
    ELSE
      LET rs_item == FindReasoning(all_items, rs_id)
      IN IF rs_item = 0 THEN request
         ELSE
           LET call_item == NextCallAfter(all_items, LogIndex(all_items, rs_item))
           IN IF call_item = 0 THEN request
              ELSE
                LET stripped == Without(request, {rs_item, call_item})
                    first_out_idx == FirstOutIdx(all_items, stripped,
                                                 all_items[call_item].call_id)
                IN InsertAt(InsertAt(stripped, first_out_idx, call_item),
                            first_out_idx, rs_item)

\* ================================================= the pure functions run
\* Items a full log may be extended with at position p. Ids are fresh
\* (the position); an output is the result of an earlier computer_call
\* that has no result yet.
NextItems(all_items, p) ==
    {UserMsg, AssistantMsg, InputImage, Reasoning(p), ComputerCall(p)}
    \cup {ComputerCallOutput(c) :
            c \in {all_items[k].call_id :
                     k \in {j \in 1..Len(all_items) :
                              all_items[j].type = "computer_call"}}
                 \ {all_items[k].call_id :
                     k \in {j \in 1..Len(all_items) :
                              all_items[j].type = "computer_call_output"}}}

\* Candidates made of distinct items of a log of n items, in any order.
Candidates(n) ==
    {c \in UNION {[1..m -> 1..n] : m \in 0..MaxCand} :
        \A a, b \in DOMAIN c : a # b => c[a] # c[b]}

\* No call of handle_item is followed on its own.
HandleIdle == h_item = <<>> /\ h_env = <<>> /\ h_result = <<>> /\ h_pc = "idle"

\* No helper of utils.py is followed on its own.
UtilsIdle ==
    u_items = <<>> /\ u_result = [raised |-> "", items |-> <<>>] /\ u_pc = "idle"

\* No browser is followed on its own.
PlaywrightIdle ==
    /\ p_browser = "" /\ p_context = "" /\ p_page = ""
    /\ p_other_pages = <<>> /\ p_url = "" /\ p_shutting_down = FALSE
    /\ p_home_url = "" /\ p_gotos = <<>> /\ p_call = <<>> /\ p_result = <<>>

FnIdleTurn ==
    /\ input_items = <<>> /\ new_items = <<>> /\ next_input = <<>>
    /\ attempt = 0 /\ built_by = "" /\ out = <<>> /\ out_idx = 0
    /\ request_stop = FALSE /\ pc = "idle"
    /\ cr_attempt = 0 /\ msg = ""

FnInit ==
    /\ FnIdleTurn
    /\ HandleIdle
    /\ UtilsIdle
    /\ PlaywrightIdle
    /\ fn_all_items = <<>> /\ fn_request = <<>> /\ fn_keep = <<>>
    /\ fn_result = <<>> /\ fn_again = <<>> /\ fn_request_left = <<>>
    /\ fn_pc = "log"

\* The log grows by one item.
FnAppend ==
    /\ fn_pc = "log"
    /\ Len(fn_all_items) < MaxLen
    /\ \E it \in NextItems(fn_all_items, Len(fn_all_items) + 1) :
          fn_all_items' = Append(fn_all_items, it)
    /\ UNCHANGED <<fn_request, fn_keep, fn_result, fn_again, fn_request_left,
                   fn_pc, non_fn_vars>>

\* candidate = _compact_base(all_items, keep_images, keep_tail)
FnCompact ==
    /\ fn_pc = "log"
    /\ \E ki \in 0..MaxKeepImages, kt \in 0..MaxKeepTail :
          /\ fn_request' = _compact_base(fn_all_items, ki, kt)
          /\ fn_keep' = <<ki, kt>>
    /\ fn_pc' = "compacted"
    /\ UNCHANGED <<fn_all_items, fn_result, fn_again, fn_request_left,
                   non_fn_vars>>

\* A candidate made by hand out of the log's items.
FnChoose ==
    /\ fn_pc = "log"
    /\ \E c \in Candidates(Len(fn_all_items)) : fn_request' = c
    /\ fn_pc' = "chosen"
    /\ UNCHANGED <<fn_all_items, fn_keep, fn_result, fn_again,
                   fn_request_left, non_fn_vars>>

\* The list `request` when _enforce_cua_via_pairs returns: steps 1 and 2
\* insert into it and pop from it in place; step 3 builds the new list
\* `cleaned` and leaves it alone.
RequestAfterEnforce(all_items, request) ==
    IF request = <<>> THEN request
    ELSE PlaceReasoning(all_items, EnsureCalls(all_items, request), 1)

\* result = _enforce_cua_via_pairs(all_items, candidate)
FnEnforce ==
    /\ fn_pc \in {"compacted", "chosen"}
    /\ fn_result' = _enforce_cua_via_pairs(fn_all_items, fn_request)
    /\ fn_request_left' = RequestAfterEnforce(fn_all_items, fn_request)
    /\ fn_pc' = "enforced"
    /\ UNCHANGED <<fn_all_items, fn_request, fn_keep, fn_again,
                   non_fn_vars>>

\* again = _enforce_cua_via_pairs(all_items, list(result))
FnEnforceAgain ==
    /\ fn_pc = "enforced"
    /\ fn_again' = _enforce_cua_via_pairs(fn_all_items, fn_result)
    /\ fn_pc' = "again"
    /\ UNCHANGED <<fn_all_items, fn_request, fn_keep, fn_result,
                   fn_request_left, non_fn_vars>>

FnNext == FnAppend \/ FnCompact \/ FnChoose \/ FnEnforce \/ FnEnforceAgain

SpecFn == FnInit /\ [][FnNext]_vars

\* The caller hands over a log that is not the append-only record of a
\* session: it holds a computer_call_output whose call_id no computer_call
\* of the log carries.
FnAppendDangling ==
    /\ fn_pc = "log"
    /\ Len(fn_all_items) < MaxLen
    /\ fn_all_items' =
          Append(fn_all_items, ComputerCallOutput(Len(fn_all_items) + 1))
    /\ UNCHANGED <<fn_request, fn_keep, fn_result, fn_again, fn_request_left,
                   fn_pc, non_fn_vars>>

FnNextOpen == FnNext \/ FnAppendDangling

SpecFnOpen == FnInit /\ [][FnNextOpen]_vars

\* ============================================================ the turn loop
\* input_items + new_items
AllItems == input_items \o new_items

\* Kinds of items a service response is made of.
BatchKinds == {"reasoning", "computer_call", "function_call", "assistant"}

\* Service responses: up to MaxBatch items, in any order.
Batches == UNION {[1..m -> BatchKinds] : m \in 0..MaxBatch}

\* Responses of the one-turn runs.
TurnBatches == UNION {[1..m -> BatchKinds] : m \in 0..MaxTurnBatch}

\* Responses of a service that uses the computer tool only.
CuaBatches ==
    UNION {[1..m -> {"reasoning", "computer_call", "assistant"}] :
              m \in 0..MaxCuaBatch}

\* The item of kind k the service creates as the log's p-th item; the
\* service issues each call_id and reasoning id once.
ServiceItem(k, p) ==
    CASE k = "reasoning" -> Reasoning(p)
      [] k = "computer_call" -> ComputerCall(p)
      [] k = "function_call" -> FunctionCall(p)
      [] k = "assistant" -> AssistantMsg

\* response["output"] for a batch of kinds received when the log has n items.
ResponseItems(batch, n) == [k \in 1..Len(batch) |-> ServiceItem(batch[k], n + k)]

\* Number of calls (of either kind) in a batch: each produces one result.
NumCalls(batch) ==
    Cardinality({k \in 1..Len(batch) :
                    batch[k] \in {"computer_call", "function_call"}})

\* Mutant of handle_item: no branch for function_call, as in
\* simple_cua_loop.handle_item.
handle_item_computer_only(item) ==
    CASE item.type = "computer_call" -> <<ComputerCallOutput(item.call_id)>>
      [] OTHER -> <<>>

\* Agent.handle_item: the result items of one response item.
handle_item(item) ==
    CASE item.type = "function_call" -> <<FunctionCallOutput(item.call_id)>>
      [] item.type = "computer_call" -> <<ComputerCallOutput(item.call_id)>>
      [] OTHER -> <<>>

\* The `while` condition of run_full_turn.
LoopCondition ==
    IF new_items # <<>> THEN new_items[Len(new_items)].role # "assistant"
    ELSE TRUE

\* keep_tail of the _compact_base call that built next_input.
KeepTailUsed == IF built_by = "first" THEN KeepTail ELSE WideTail

\* next_input of a fresh send: compact, then enforce.
FirstRequest(all_items) ==
    _enforce_cua_via_pairs(all_items,
                           _compact_base(all_items, KeepImages, KeepTail))

\* next_input of retry A: widened tail, forced reasoning and call, enforce.
RetryRequestA(all_items, rs_id) ==
    _enforce_cua_via_pairs(
        all_items,
        _force_include_reasoning_and_call(
            all_items, _compact_base(all_items, KeepImages, WideTail), rs_id))

\* next_input of retry B: widened tail, enforce.
RetryRequestB(all_items) ==
    _enforce_cua_via_pairs(all_items,
                           _compact_base(all_items, KeepImages, WideTail))

\* Reasoning ids the service may name in a rejection: those of the log and
\* one that the log does not hold.
NamedIds == {AllItems[k].id :
               k \in {j \in 1..Len(AllItems) : AllItems[j].type = "reasoning"}}
            \cup {MaxLog + MaxCuaLog}

TurnIdleFn ==
    /\ fn_all_items = <<>> /\ fn_request = <<>> /\ fn_keep = <<>>
    /\ fn_result = <<>> /\ fn_again = <<>> /\ fn_request_left = <<>>
    /\ fn_pc = "idle"

\* cli.main has appended the user's instruction and calls run_full_turn.
Init ==
    /\ TurnIdleFn
    /\ HandleIdle
    /\ UtilsIdle
    /\ PlaywrightIdle
    /\ input_items = <<UserMsg>>
    /\ new_items = <<>>
    /\ next_input = <<>>
    /\ attempt = 0
    /\ built_by = ""
    /\ out = <<>>
    /\ out_idx = 0
    /\ request_stop = FALSE
    /\ pc = "loop"
    /\ cr_attempt = 0
    /\ msg = ""

\* The while condition is false: the last new item is an assistant message.
LoopExit ==
    /\ pc = "loop"
    /\ ~LoopCondition
    /\ pc' = "returned"
    /\ UNCHANGED <<input_items, new_items, next_input, attempt, built_by,
                   out, out_idx, request_stop, non_turn_vars, cr_attempt, msg>>

\* request_stop is set at the top of the loop body: break.
LoopStop ==
    /\ pc = "loop"
    /\ LoopCondition
    /\ request_stop
    /\ pc' = "returned"
    /\ UNCHANGED <<input_items, new_items, next_input, attempt, built_by,
                   out, out_idx, request_stop, non_turn_vars, cr_attempt, msg>>

\* Mutant of BuildRequest: compaction is applied to new_items itself, which
\* keeps its last KeepTail items only.
BuildRequestCompactsLog ==
    /\ pc = "loop"
    /\ LoopCondition
    /\ ~request_stop
    /\ next_input' = FirstRequest(AllItems)
    /\ new_items' = SubSeq(new_items,
                           TailStart(Len(new_items), KeepTail), Len(new_items))
    /\ built_by' = "first"
    /\ attempt' = 0
    /\ cr_attempt' = 1
    /\ pc' = "send"
    /\ UNCHANGED <<input_items, out, out_idx, request_stop, non_turn_vars, msg>>

\* 1) compact, then enforce; enter the send loop with attempt = 0.
BuildRequest ==
    /\ pc = "loop"
    /\ LoopCondition
    /\ ~request_stop
    /\ next_input' = FirstRequest(AllItems)
    /\ built_by' = "first"
    /\ attempt' = 0
    /\ cr_attempt' = 1
    /\ pc' = "send"
    /\ UNCHANGED <<input_items, new_items, out, out_idx, request_stop,
                   non_turn_vars,
                   msg>>

\* The send loop is left: next_input and attempt are not read again before
\* BuildRequest assigns them, and they are recorded as unset.
SendLoopLeft ==
    next_input' = <<>> /\ attempt' = 0 /\ built_by' = "" /\ cr_attempt' = 0

\* The for loop is left: out is not read again before ServiceRespond
\* assigns it, and it is recorded as unset.
ForLoopLeft == out' = <<>> /\ out_idx' = 0

\* Mutant of RespondWith: the response is appended to new_items back to
\* front.
RespondWithReversed(batch, max_log) ==
    /\ pc = "send"
    /\ Len(AllItems) + Len(batch) + NumCalls(batch) <= max_log
    /\ out' = ResponseItems(batch, Len(AllItems))
    /\ new_items' = new_items \o
          [k \in 1..Len(batch) |->
              ResponseItems(batch, Len(AllItems))[Len(batch) + 1 - k]]
    /\ out_idx' = 1
    /\ pc' = "dispatch"
    /\ SendLoopLeft
    /\ UNCHANGED <<input_items, request_stop, non_turn_vars, msg>>

\* Mutant of RespondWith: the response is dispatched without being appended
\* to new_items.
RespondWithNotLogged(batch, max_log) ==
    /\ pc = "send"
    /\ Len(AllItems) + Len(batch) + NumCalls(batch) <= max_log
    /\ out' = ResponseItems(batch, Len(AllItems))
    /\ out_idx' = 1
    /\ pc' = "dispatch"
    /\ SendLoopLeft
    /\ UNCHANGED <<input_items, new_items, request_stop, non_turn_vars, msg>>

\* create_response returns the batch: new_items += out, then the for loop
\* starts. The log, with the results still to come, stays within max_log.
RespondWith(batch, max_log) ==
    /\ pc = "send"
    /\ Len(AllItems) + Len(batch) + NumCalls(batch) <= max_log
    /\ out' = ResponseItems(batch, Len(AllItems))
    /\ new_items' = new_items \o ResponseItems(batch, Len(AllItems))
    /\ out_idx' = 1
    /\ pc' = "dispatch"
    /\ SendLoopLeft
    /\ UNCHANGED <<input_items, request_stop, non_turn_vars, msg>>

ServiceRespond == \E batch \in Batches : RespondWith(batch, MaxLog)

ServiceRespondCua == \E batch \in CuaBatches : RespondWith(batch, MaxCuaLog)

ServiceRespondTurn == \E batch \in TurnBatches : RespondWith(batch, MaxTurnLog)

\* A) the service names a missing reasoning item and retries remain.
RejectMissingReasoning ==
    /\ pc = "send"
    /\ attempt < max_retries
    /\ \E rs_id \in NamedIds : next_input' = RetryRequestA(AllItems, rs_id)
    /\ built_by' = "A"
    /\ attempt' = attempt + 1
    /\ cr_attempt' = 1
    /\ UNCHANGED <<input_items, new_items, out, out_idx, request_stop, pc,
                   non_turn_vars, msg>>

\* Mutant of RejectNoToolCall: retry B without the `attempt < max_retries`
\* test.
RejectNoToolCallUnguarded ==
    /\ pc = "send"
    /\ next_input' = RetryRequestB(AllItems)
    /\ built_by' = "B"
    /\ attempt' = attempt + 1
    /\ cr_attempt' = 1
    /\ UNCHANGED <<input_items, new_items, out, out_idx, request_stop, pc,
                   non_turn_vars, msg>>

\* B) the service reports an output without its call and retries remain.
RejectNoToolCall ==
    /\ pc = "send"
    /\ attempt < max_retries
    /\ next_input' = RetryRequestB(AllItems)
    /\ built_by' = "B"
    /\ attempt' = attempt + 1
    /\ cr_attempt' = 1
    /\ UNCHANGED <<input_items, new_items, out, out_idx, request_stop, pc,
                   non_turn_vars, msg>>

\* create_response: the post meets a transient fault and attempts remain;
\* after the backoff sleep the same payload is posted again.
TransientFaults ==
    {"status_5xx", "server_error", "overloaded_error", "read_timeout",
     "connection_error"}

\* Mutant of PostTransient: the `attempt < MAX_RETRIES` test is left out.
PostTransientUnbounded ==
    /\ pc = "send"
    /\ cr_attempt' = cr_attempt + 1
    /\ UNCHANGED <<input_items, new_items, next_input, attempt, built_by,
                   out, out_idx, request_stop, pc, non_turn_vars, msg>>

PostTransient ==
    /\ pc = "send"
    /\ cr_attempt < MAX_RETRIES
    /\ \E fault \in TransientFaults : cr_attempt' = cr_attempt + 1
    /\ UNCHANGED <<input_items, new_items, next_input, attempt, built_by,
                   out, out_idx, request_stop, pc, non_turn_vars, msg>>

\* Classes of the RuntimeError messages of create_response, by what
\* run_full_turn looks for in them: the regex of A, the text of B, a
\* transient fault on the last attempt, anything else.
ErrorClasses == {"reasoning", "no_tool_call", "transient", "other"}

\* create_response can raise a RuntimeError of class m that run_full_turn
\* answers by giving up: a transient fault with `attempt < MAX_RETRIES`
\* false, a message of A or B with `attempt < max_retries` false, or any
\* other error reply.
GivesUpOn(m) ==
    CASE m = "transient" -> cr_attempt = MAX_RETRIES
      [] m \in {"reasoning", "no_tool_call"} -> attempt >= max_retries
      [] OTHER -> TRUE

\* Mutant of GiveUpWith: the RuntimeError is not caught.
GiveUpRaising(m) ==
    /\ pc = "send"
    /\ GivesUpOn(m)
    /\ pc' = "raised"
    /\ UNCHANGED <<input_items, new_items, next_input, attempt, built_by,
                   out, out_idx, request_stop, non_turn_vars, cr_attempt, msg>>

\* C) give up gracefully: print the message and `return new_items`.
GiveUpWith(m) ==
    /\ pc = "send"
    /\ GivesUpOn(m)
    /\ msg' = m
    /\ pc' = "gave_up"
    /\ SendLoopLeft
    /\ UNCHANGED <<input_items, new_items, out, out_idx, request_stop,
                   non_turn_vars>>

GiveUp == \E m \in ErrorClasses : GiveUpWith(m)

\* One round of `for item in out`: new_items += self.handle_item(item).
HandleItem ==
    /\ pc = "dispatch"
    /\ out_idx <= Len(out)
    /\ ~request_stop
    /\ new_items' = new_items \o handle_item(out[out_idx])
    /\ out_idx' = out_idx + 1
    /\ UNCHANGED <<input_items, next_input, attempt, built_by, out,
                   request_stop, pc, non_turn_vars, cr_attempt, msg>>

\* Executing a computer_call raises (the action itself, or a blocked URL):
\* nothing catches it and it leaves run_full_turn.
HandleItemRaises ==
    /\ pc = "dispatch"
    /\ out_idx <= Len(out)
    /\ ~request_stop
    /\ out[out_idx].type = "computer_call"
    /\ pc' = "raised"
    /\ UNCHANGED <<input_items, new_items, next_input, attempt, built_by,
                   out, out_idx, request_stop, non_turn_vars, cr_attempt, msg>>

\* Mutant of DispatchStop: the break comes after the item was handled.
DispatchStopLate ==
    /\ pc = "dispatch"
    /\ out_idx <= Len(out)
    /\ request_stop
    /\ new_items' = new_items \o handle_item(out[out_idx])
    /\ pc' = "loop"
    /\ ForLoopLeft
    /\ UNCHANGED <<input_items, next_input, attempt, built_by,
                   request_stop, non_turn_vars, cr_attempt, msg>>

\* request_stop is set inside the for loop: break, back to the while.
DispatchStop ==
    /\ pc = "dispatch"
    /\ out_idx <= Len(out)
    /\ request_stop
    /\ pc' = "loop"
    /\ ForLoopLeft
    /\ UNCHANGED <<input_items, new_items, next_input, attempt, built_by,
                   request_stop, non_turn_vars, cr_attempt, msg>>

\* The for loop is exhausted: back to the while.
DispatchDone ==
    /\ pc = "dispatch"
    /\ out_idx > Len(out)
    /\ pc' = "loop"
    /\ ForLoopLeft
    /\ UNCHANGED <<input_items, new_items, next_input, attempt, built_by,
                   request_stop, non_turn_vars, cr_attempt, msg>>

\* Something sets Agent.request_stop while the turn runs.
RequestStop ==
    /\ pc \in {"loop", "send", "dispatch"}
    /\ ~request_stop
    /\ request_stop' = TRUE
    /\ UNCHANGED <<input_items, new_items, next_input, attempt, built_by,
                   out, out_idx, pc, non_turn_vars, cr_attempt, msg>>

\* cli.main: items += output_items, the next instruction is appended and
\* run_full_turn is called again.
NextTurn ==
    /\ pc \in {"returned", "gave_up"}
    /\ ~request_stop
    /\ Len(AllItems) < MaxLog
    /\ input_items' = AllItems \o <<UserMsg>>
    /\ new_items' = <<>>
    /\ pc' = "loop"
    /\ msg' = ""
    /\ UNCHANGED <<next_input, attempt, built_by, out, out_idx,
                   request_stop, non_turn_vars, cr_attempt>>

Next ==
    \/ LoopExit \/ LoopStop \/ BuildRequest
    \/ ServiceRespond \/ RejectMissingReasoning \/ RejectNoToolCall \/ GiveUp
    \/ HandleItem \/ HandleItemRaises \/ DispatchStop \/ DispatchDone
    \/ RequestStop \/ NextTurn

Spec == Init /\ [][Next]_vars

\* The steps of the send loop. Each post returns or raises within its
\* timeouts and each backoff sleep ends, so the loop keeps taking steps.
SendLoopStep ==
    \/ ServiceRespondTurn \/ PostTransient
    \/ RejectMissingReasoning \/ RejectNoToolCall \/ GiveUp

\* One call of run_full_turn, with every fault of the service, transient
\* ones included, and stop requests.
NextOneTurn ==
    \/ LoopExit \/ LoopStop \/ BuildRequest
    \/ SendLoopStep
    \/ HandleItem \/ HandleItemRaises \/ DispatchStop \/ DispatchDone
    \/ RequestStop

SpecTurn == Init /\ [][NextOneTurn]_vars

SpecSendLive == SpecTurn /\ WF_vars(SendLoopStep)

\* One turn in which nothing sets request_stop, against a service that
\* uses the computer tool only, run to longer logs and larger responses.
NextCua ==
    \/ LoopExit \/ BuildRequest
    \/ ServiceRespondCua \/ RejectMissingReasoning \/ RejectNoToolCall
    \/ GiveUp
    \/ HandleItem \/ HandleItemRaises \/ DispatchDone

SpecCua == Init /\ [][NextCua]_vars

\* ------------------------------------------------ a turn under cli's SIGINT
\* handle_item(item) is called: the action runs against the computer.
HandleItemBegin ==
    /\ pc = "dispatch"
    /\ out_idx <= Len(out)
    /\ ~request_stop
    /\ pc' = "handling"
    /\ UNCHANGED <<input_items, new_items, next_input, attempt, built_by,
                   out, out_idx, request_stop, non_turn_vars, cr_attempt, msg>>

\* handle_item returns and its result is appended to new_items.
HandleItemEnd ==
    /\ pc = "handling"
    /\ new_items' = new_items \o handle_item(out[out_idx])
    /\ out_idx' = out_idx + 1
    /\ pc' = "dispatch"
    /\ UNCHANGED <<input_items, next_input, attempt, built_by, out,
                   request_stop, non_turn_vars, cr_attempt, msg>>

\* The action of a computer_call raises.
HandleItemFails ==
    /\ pc = "handling"
    /\ out[out_idx].type = "computer_call"
    /\ pc' = "raised"
    /\ UNCHANGED <<input_items, new_items, next_input, attempt, built_by,
                   out, out_idx, request_stop, non_turn_vars, cr_attempt, msg>>

\* cli._sigint_handler runs in the main thread while run_full_turn is on
\* the stack: it sets agent.request_stop and raises KeyboardInterrupt, which
\* nothing in run_full_turn, handle_item or create_response catches; main
\* catches it around run_full_turn and breaks, skipping
\* `items += output_items`.
Sigint ==
    /\ pc \in {"loop", "send", "dispatch", "handling"}
    /\ request_stop' = TRUE
    /\ pc' = "interrupted"
    /\ UNCHANGED <<input_items, new_items, next_input, attempt, built_by,
                   out, out_idx, non_turn_vars, cr_attempt, msg>>

\* One call of run_full_turn from cli.main, where only the SIGINT handler
\* sets request_stop.
NextSigint ==
    \/ LoopExit \/ BuildRequest
    \/ SendLoopStep
    \/ HandleItemBegin \/ HandleItemEnd \/ HandleItemFails \/ DispatchDone
    \/ Sigint

SpecSigint == Init /\ [][NextSigint]_vars

\* ================================================================= claims
\* The log positions held by a request.
Range(s) == {s[k] : k \in 1..Len(s)}

\* In the request, every item of type out_type is preceded by an item of
\* type call_type carrying the same call_id.
PairedBefore(all_items, request, out_type, call_type) ==
    \A k \in 1..Len(request) :
        all_items[request[k]].type = out_type =>
            \E j \in 1..(k - 1) :
                /\ all_items[request[j]].type = call_type
                /\ all_items[request[j]].call_id = all_items[request[k]].call_id

\* The request lists its items in the order of the full log.
InLogOrder(request) ==
    \A a, b \in 1..Len(request) : a < b => request[a] < request[b]

\* C1: every request run_full_turn passes to the service, first send or
\* retry, holds for each computer_call_output an earlier computer_call with
\* the same call_id.
C1_ComputerCallPairing ==
    pc = "send" =>
        PairedBefore(AllItems, next_input, "computer_call_output", "computer_call")

\* C1 witness: a request about to be sent holds an output whose call lay
\* outside the tail window and was put back in front of it.
C1_Witness ==
    /\ pc = "send"
    /\ \E k \in 1..Len(next_input), j \in 1..Len(next_input) :
          /\ j < k
          /\ AllItems[next_input[k]].type = "computer_call_output"
          /\ AllItems[next_input[j]].type = "computer_call"
          /\ AllItems[next_input[j]].call_id = AllItems[next_input[k]].call_id
          /\ next_input[j] <= Len(AllItems) - KeepTailUsed

\* C2: every request run_full_turn passes to the service holds for each
\* function_call_output an earlier function_call with the same call_id.
C2_FunctionCallPairing ==
    pc = "send" =>
        PairedBefore(AllItems, next_input, "function_call_output", "function_call")

\* C3: in the Enforcer's output, every computer_call that directly follows
\* a reasoning item in the full log directly follows that reasoning item.
C3_CallKeepsItsReasoning ==
    fn_pc = "enforced" =>
        \A k \in 1..Len(fn_result) :
            LET p == fn_result[k]
            IN (/\ fn_all_items[p].type = "computer_call"
                /\ p > 1
                /\ fn_all_items[p - 1].type = "reasoning")
               => (k > 1 /\ fn_result[k - 1] = p - 1)

\* C4: in every request passed to the service (an output of the Enforcer),
\* every reasoning item is directly followed by the computer_call that
\* directly follows it in the full log.
C4_ReasoningKeepsItsCall ==
    pc = "send" =>
        \A k \in 1..Len(next_input) :
            LET p == next_input[k]
            IN AllItems[p].type = "reasoning" =>
                 /\ k < Len(next_input)
                 /\ p < Len(AllItems)
                 /\ next_input[k + 1] = p + 1
                 /\ AllItems[p + 1].type = "computer_call"

\* C5: the Enforcer's output for a compacted log, which is every request
\* passed to the service, lists its items in the relative order of the
\* full log.
C5_OrderPreserved ==
    pc = "send" => InLogOrder(next_input)

\* C6: the Enforcer applied to its own output returns that output.
C6_EnforcerIdempotent ==
    fn_pc = "again" => fn_again = fn_result

\* C7: with keep_images = 1, a request built by _compact_base and the
\* Enforcer holds at most one computer_call_output (each carries a
\* screenshot).
C7_OneScreenshot ==
    (pc = "send" /\ KeepImages = 1) =>
        Cardinality({k \in 1..Len(next_input) :
                        AllItems[next_input[k]].type = "computer_call_output"})
            <= 1

\* C9: for every keep_tail >= 0 the output of _compact_base is the latest
\* user message (only when outside the window) followed by items of the
\* last keep_tail positions, holds every such item that is not an image,
\* and has at most keep_tail + 1 items.
C9_TailWindow ==
    fn_pc = "compacted" =>
        LET n == Len(fn_all_items)
            window == {p \in 1..n : p > n - fn_keep[2]}
            users == {p \in 1..n : fn_all_items[p] = UserMsg}
        IN /\ \A k \in 1..Len(fn_request) :
                 \/ fn_request[k] \in window
                 \/ /\ k = 1
                    /\ fn_request[k] \in users
                    /\ \A u \in users : u <= fn_request[k]
           /\ \A p \in window :
                 fn_all_items[p].type # "input_image" => p \in Range(fn_request)
           /\ Len(fn_request) <= fn_keep[2] + 1

\* C8: when the full log holds a user message, every request passed to the
\* service holds the most recent one.
C8_LatestUserMessageSent ==
    pc = "send" =>
        \A p \in 1..Len(AllItems) :
            (/\ AllItems[p] = UserMsg
             /\ \A q \in (p + 1)..Len(AllItems) : AllItems[q] # UserMsg)
            => p \in Range(next_input)

\* C8 witness: a request about to be sent holds the latest of several user
\* messages although it lies outside the tail window.
C8_Witness ==
    /\ pc = "send"
    /\ \E p \in Range(next_input), q \in 1..Len(AllItems) :
          /\ q < p
          /\ AllItems[q] = UserMsg
          /\ AllItems[p] = UserMsg
          /\ p <= Len(AllItems) - KeepTailUsed
          /\ \A u \in (p + 1)..Len(AllItems) : AllItems[u] # UserMsg

\* C10 as claimed: every request passed to the service has at most
\* 1 + 3 * keep_tail items, keep_tail being the tail window in use.
C10_ClaimedBound ==
    pc = "send" => Len(next_input) <= 1 + 3 * KeepTailUsed

\* C10 amended: a request has at most 1 + 3 * keep_tail items, and at most
\* 3 + 3 * keep_tail when retry A force-included a reasoning item and call.
C10_RequestBound ==
    pc = "send" =>
        Len(next_input) <= (IF built_by = "A" THEN 3 ELSE 1) + 3 * KeepTailUsed

\* C10 witness: a retry A request that holds more than 1 + 3 * keep_tail
\* items, on a log that is longer than the request.
C10_Witness ==
    /\ pc = "send"
    /\ built_by = "A"
    /\ Len(next_input) > 1 + 3 * WideTail
    /\ Len(AllItems) > Len(next_input)

\* Call ids of the candidate's computer_call_outputs whose computer_call is
\* absent from the candidate and present in the full log.
RepairedCallIds(all_items, request) ==
    (CallIds(all_items, request, "computer_call_output")
        \ CallIds(all_items, request, "computer_call"))
    \cap {all_items[k].call_id :
            k \in {j \in 1..Len(all_items) : all_items[j].type = "computer_call"}}

\* In the result, the computer_call with call id cid stands immediately
\* before the first computer_call_output with that call id, and its paired
\* reasoning, if it has one, immediately before the call.
RepairedInPlace(all_items, result, cid) ==
    LET o == FirstOutIdx(all_items, result, cid)
        r == CallidToReasoning(all_items, cid)
    IN /\ o <= Len(result)
       /\ o > 1
       /\ all_items[result[o - 1]].type = "computer_call"
       /\ all_items[result[o - 1]].call_id = cid
       /\ r # 0 => (o > 2 /\ result[o - 2] = r)

\* C11: when the candidate holds a computer_call_output whose computer_call
\* is absent from the candidate and present in the full log, the Enforcer's
\* output holds that call immediately before the first output with that
\* call id, and the call's paired reasoning immediately before the call.
C11_RepairPosition ==
    fn_pc = "enforced" =>
        \A cid \in RepairedCallIds(fn_all_items, fn_request) :
            RepairedInPlace(fn_all_items, fn_result, cid)

\* The same for the candidates _compact_base builds.
C11_OnCompacted ==
    (fn_pc = "enforced" /\ fn_keep # <<>>) =>
        \A cid \in RepairedCallIds(fn_all_items, fn_request) :
            RepairedInPlace(fn_all_items, fn_result, cid)

\* The computer_call paired with the reasoning item at log position r: the
\* item that directly follows it, when that is a computer_call; 0 if none.
PairedCall(all_items, r) ==
    IF r < Len(all_items) /\ all_items[r + 1].type = "computer_call"
    THEN r + 1 ELSE 0

\* Of the candidate's items, the result keeps every non-reasoning item, and
\* it drops a reasoning item exactly when the paired computer_call is not
\* in the result.
ExactlyOrphansRemoved(all_items, request, result) ==
    \A k \in 1..Len(request) :
        LET p == request[k]
        IN IF all_items[p].type # "reasoning"
           THEN p \in Range(result)
           ELSE (p \notin Range(result))
                    <=> (PairedCall(all_items, p) \notin Range(result))

\* C12: the Enforcer removes exactly the orphan reasoning items of the
\* candidate: every other item of the candidate is in its output, and a
\* reasoning item is absent from the output if and only if its paired
\* computer_call is not in the output.
C12_ExactlyOrphansRemoved ==
    fn_pc = "enforced" =>
        ExactlyOrphansRemoved(fn_all_items, fn_request, fn_result)

\* The same for the candidates _compact_base builds.
C12_OnCompacted ==
    (fn_pc = "enforced" /\ fn_keep # <<>>) =>
        ExactlyOrphansRemoved(fn_all_items, fn_request, fn_result)

\* The non-reasoning half of C12 alone.
C12_OthersKept ==
    fn_pc = "enforced" =>
        \A k \in 1..Len(fn_request) :
            fn_all_items[fn_request[k]].type # "reasoning"
                => fn_request[k] \in Range(fn_result)

\* The action request justified by the reasoning item at log position r:
\* the computer_call or function_call that directly follows it; 0 if none.
JustifiedCall(all_items, r) ==
    IF /\ r < Len(all_items)
       /\ all_items[r + 1].type \in {"computer_call", "function_call"}
    THEN r + 1 ELSE 0

\* The request holds the reasoning item r directly followed by the call c,
\* both in front of every result item that carries c's call id.
PairInPlace(all_items, request, r, c) ==
    \E k \in 1..(Len(request) - 1) :
        /\ request[k] = r
        /\ request[k + 1] = c
        /\ \A j \in 1..Len(request) :
              (/\ all_items[request[j]].type
                      \in {"computer_call_output", "function_call_output"}
               /\ all_items[request[j]].call_id = all_items[c].call_id)
              => j > k + 1

\* The service rejects the request naming rs_id, a reasoning item of the log
\* that the request lacks and that justifies an action request, while
\* retries remain; the step taken is retry A for that id.
NamedRetryStep(rs_id) ==
    /\ pc = "send"
    /\ attempt < max_retries
    /\ FindReasoning(AllItems, rs_id) # 0
    /\ FindReasoning(AllItems, rs_id) \notin Range(next_input)
    /\ JustifiedCall(AllItems, FindReasoning(AllItems, rs_id)) # 0
    /\ built_by' = "A"
    /\ attempt' = attempt + 1
    /\ next_input' = RetryRequestA(AllItems, rs_id)

\* C13: after the service rejects a request naming a missing reasoning id
\* that exists in the full log, and retries remain, the next request sent
\* holds that reasoning item directly followed by the action request it
\* justifies, both before any result item with that request's call_id.
C13_NamedPairResent ==
    [][\A rs_id \in NamedIds :
          NamedRetryStep(rs_id) =>
              PairInPlace(AllItems, next_input',
                          FindReasoning(AllItems, rs_id),
                          JustifiedCall(AllItems, FindReasoning(AllItems, rs_id)))]_vars

\* The same for named reasoning items that justify a computer_call.
C13_ForComputerCalls ==
    [][\A rs_id \in NamedIds :
          (/\ NamedRetryStep(rs_id)
           /\ PairedCall(AllItems, FindReasoning(AllItems, rs_id)) # 0)
          => PairInPlace(AllItems, next_input',
                         FindReasoning(AllItems, rs_id),
                         PairedCall(AllItems, FindReasoning(AllItems, rs_id)))]_vars

C15_SendLoopTerminates ==
    /\ [](pc = "send" => (attempt + 1 <= 4 /\ cr_attempt <= MAX_RETRIES))
    /\ (pc = "send") ~> (pc \in {"dispatch", "gave_up"})

\* C15 witness: the fourth call of create_response is being made, after
\* three rejections.
C15_Witness ==
    /\ pc = "send"
    /\ attempt = 3

\* C16: on each targeted retry (A or B) the candidate is rebuilt from a tail
\* window larger than the one that built the request just rejected.
C16_RetryWidens ==
    [][(pc = "send" /\ attempt' = attempt + 1)
          => KeepTailUsed' > KeepTailUsed]_vars

\* The same for the first retry of a send alone.
C16_FirstRetryWidens ==
    [][(pc = "send" /\ attempt = 0 /\ attempt' = 1)
          => KeepTailUsed' > KeepTailUsed]_vars

\* C17: create_response retries a transient fault with the same payload
\* while attempts remain and posts at most MAX_RETRIES times; a transient
\* fault on the last attempt becomes a RuntimeError on which run_full_turn
\* ends the turn with `return new_items`; no other error makes
\* create_response post again.
C17_TransientFaultsRetried ==
    [][pc = "send" =>
          /\ cr_attempt \in 1..MAX_RETRIES
          /\ (pc' = "send" /\ cr_attempt' > cr_attempt)
                => /\ cr_attempt' = cr_attempt + 1
                   /\ next_input' = next_input
                   /\ attempt' = attempt
          /\ (pc' = "gave_up" /\ msg' = "transient")
                => /\ cr_attempt = MAX_RETRIES
                   /\ new_items' = new_items
          /\ pc' # "raised"]_vars

\* C17 witness: every post of a call met a transient fault and the turn
\* ended with the items accumulated so far.
C17_Witness ==
    /\ pc = "gave_up"
    /\ msg = "transient"
    /\ new_items # <<>>

\* C18: when executing a computer_call against the computer raises, the
\* fault is turned into a failed result item for that call and the turn
\* continues: no exception leaves run_full_turn.
C18_ActionFaultCaptured == pc # "raised"

\* Call ids of the request's computer_call_outputs that no computer_call of
\* the full log carries.
DanglingIds(all_items, request) ==
    (CallIds(all_items, request, "computer_call_output") \ {0})
    \ {all_items[k].call_id :
         k \in {j \in 1..Len(all_items) : all_items[j].type = "computer_call"}}

\* C19: a computer_call_output of the candidate whose call_id matches no
\* computer_call of the full log is reported as an integrity fault: the
\* Enforcer, which has no other way to report, never returns a request that
\* holds such an output.
C19_IntegrityFaultReported ==
    fn_pc = "enforced" => DanglingIds(fn_all_items, fn_result) = {}

\* The response being dispatched holds an assistant message.
HasAssistant(items) == \E k \in 1..Len(items) : items[k].role = "assistant"

\* C20: whenever a service response holds an assistant message, wherever it
\* stands in the response, run_full_turn returns after dispatching the
\* response without sending another request: when the for loop over such a
\* response is left, the turn loop does not go on to build a request.
C20_AssistantEndsTurn ==
    [][(pc = "dispatch" /\ pc' = "loop" /\ HasAssistant(out))
          => (~LoopCondition \/ request_stop)']_vars

\* The same for responses whose last item is the assistant message and
\* that hold no computer_call or function_call.
C20_WhenLastAndNoCalls ==
    [][(/\ pc = "dispatch" /\ pc' = "loop"
        /\ out # <<>> /\ out[Len(out)].role = "assistant"
        /\ \A k \in 1..Len(out) : handle_item(out[k]) = <<>>)
          => (~LoopCondition \/ request_stop)']_vars

\* C21: once request_stop is set, run_full_turn builds and sends no further
\* request (neither the request of a new round of the turn loop nor a
\* rebuilt retry), handles no further item of a response, and raises
\* nothing.
C21_StopIsHonoured ==
    [][request_stop =>
          /\ ~(pc = "loop" /\ pc' = "send")
          /\ ~(pc = "send" /\ attempt' = attempt + 1)
          /\ ~(pc = "dispatch" /\ out_idx' = out_idx + 1)
          /\ pc' # "raised"]_vars

\* The same without the rebuilt retries of the send loop.
C21_OutsideSendLoop ==
    [][request_stop =>
          /\ ~(pc = "loop" /\ pc' = "send")
          /\ ~(pc = "dispatch" /\ out_idx' = out_idx + 1)
          /\ pc' # "raised"]_vars

\* The items hold a result item for the call: an output of either kind
\* with the call's call_id.
HasResult(items, call) ==
    \E j \in 1..Len(items) :
        /\ items[j].type \in {"computer_call_output", "function_call_output"}
        /\ items[j].call_id = call.call_id

SessionLog == IF pc \in {"returned", "gave_up"} THEN AllItems ELSE input_items

\* C23: cancellation is never preemptive: when SIGINT arrives while an
\* action is being dispatched or a request is in flight, the step only sets
\* the flag; the operation goes on, so that its result reaches the log.
C23_CancelNotPreemptive ==
    [][(~request_stop /\ request_stop' /\ pc \in {"send", "handling"})
          => (pc' = pc /\ new_items' = new_items)]_vars

\* The last part of C23 alone: the session log never holds a call whose
\* handling began without holding its result.
C23_NoHalfAppliedAction ==
    \A k \in 1..Len(SessionLog) :
        (/\ handle_item(SessionLog[k]) # <<>>
         /\ pc = "interrupted")
        => HasResult(SessionLog, SessionLog[k])

\* The result items of handling the first n items of a response, in order.
RECURSIVE Results(_, _)
Results(items, n) ==
    IF n = 0 THEN <<>> ELSE Results(items, n - 1) \o handle_item(items[n])

\* The last n items of a sequence.
LastItems(s, n) == SubSeq(s, Len(s) - n + 1, Len(s))

\* C24: the items of a response are appended to the log in the order the
\* service returned them, and its actions are dispatched one at a time in
\* that order: while the response is dispatched, new_items ends with the
\* response as returned, followed by the results of the items handled so
\* far, in the same order; an item is being handled only when every earlier
\* item of the response has been handled and has its result in the log.
C24_DispatchInOrder ==
    pc \in {"dispatch", "handling"} =>
        LET done == out \o Results(out, out_idx - 1)
        IN /\ Len(new_items) >= Len(done)
           /\ LastItems(new_items, Len(done)) = done

\* C24 witness: the second of two calls of one response is being handled
\* and the result of the first is in the log.
C24_Witness ==
    /\ pc = "handling"
    /\ out_idx = 2
    /\ handle_item(out[1]) # <<>>
    /\ handle_item(out[2]) # <<>>
    /\ HasResult(new_items, out[1])

\* Sequence a is a prefix of sequence b.
IsPrefix(a, b) == Len(a) <= Len(b) /\ SubSeq(b, 1, Len(a)) = a

\* C25: the log is append-only: while run_full_turn runs, the caller's
\* input_items stays as it is and new_items only grows at its end, whatever
\* compaction, enforcement and retries do to the requests.
C25_LogAppendOnly ==
    [][pc \notin {"returned", "gave_up"} =>
          /\ input_items' = input_items
          /\ IsPrefix(new_items, new_items')]_vars

\* C25 witness: a retry has rebuilt a request that leaves out items of the
\* log, and the turn's log holds several items.
C25_Witness ==
    /\ pc = "send"
    /\ attempt >= 1
    /\ Len(new_items) >= 2
    /\ Len(next_input) < Len(AllItems)

\* C26: the Enforcer is pure: a call of _enforce_cua_via_pairs leaves the
\* full log and the candidate list it was given with the contents they had
\* before the call. (The full log is never written to; the candidate is
\* compared here.)
C26_EnforcerPure ==
    fn_pc = "enforced" => fn_request_left = fn_request

\* ---------------------------------------------------------------------
\* One call of Agent.handle_item, with what the item and the computer are
\* like: whether the arguments of a function_call parse, whether the
\* computer has the named method, whether a method or an action raises,
\* which environment the computer is and which page the browser shows.

\* Text is a sequence of pieces; "." , "://" and "/" are pieces of their own.
Dot == <<".">>

\* s ends with t (str.endswith).
EndsWith(s, t) ==
    Len(s) >= Len(t) /\ SubSeq(s, Len(s) - Len(t) + 1, Len(s)) = t

\* utils.BLOCKED_DOMAINS.
BLOCKED_DOMAINS ==
    { <<"maliciousbook", ".", "com">>, <<"evilvideos", ".", "com">>,
      <<"darkwebforum", ".", "com">>, <<"shadytok", ".", "com">>,
      <<"suspiciouspins", ".", "com">>, <<"ilanbigio", ".", "com">> }

\* Longest host name, in labels, the browser is taken to show.
MaxLabels == 3

\* Labels of the host names followed.
HostLabels ==
    { <<"com">>, <<"www">>, <<"example">>, <<"maliciousbook">>,
      <<"not", "maliciousbook">>, <<"ilanbigio">> }

\* The labels joined by dots.
RECURSIVE JoinLabels(_)
JoinLabels(labels) ==
    IF Len(labels) = 1 THEN labels[1]
    ELSE labels[1] \o Dot \o JoinLabels(Tail(labels))

\* Host names of one to MaxLabels labels.
Hostnames ==
    UNION { { JoinLabels(ls) : ls \in [1..n -> HostLabels] } : n \in 1..MaxLabels }

\* Pages the browser can show: a page of a host, or a page with no host.
CurrentUrls ==
    { <<"https", "://">> \o h \o <<"/">> : h \in Hostnames }
        \cup { <<"about", ":", "blank">> }

\* urlparse(url).hostname or "": the pieces between "://" and the next "/".
RECURSIVE UpToSlash(_)
UpToSlash(s) ==
    IF s = <<>> \/ Head(s) = "/" THEN <<>>
    ELSE <<Head(s)>> \o UpToSlash(Tail(s))

Hostname(url) ==
    IF Len(url) >= 2 /\ url[2] = "://" THEN UpToSlash(SubSeq(url, 3, Len(url)))
    ELSE <<>>

\* Mutant of check_blocklisted_url: the suffix is compared without the dot.
check_blocklisted_url_nodot(url) ==
    \E blocked \in BLOCKED_DOMAINS : EndsWith(Hostname(url), blocked)

\* utils.check_blocklisted_url: TRUE when it raises ValueError.
check_blocklisted_url(url) ==
    LET hostname == Hostname(url) IN
    \E blocked \in BLOCKED_DOMAINS :
        hostname = blocked \/ EndsWith(hostname, Dot \o blocked)

\* Response items handed to handle_item. `arguments` tells what the
\* arguments string of a function_call is: absent, a JSON object, JSON that
\* is not an object, or not JSON.
HandledTypes == {"message", "reasoning", "function_call", "computer_call", "other"}
ArgumentKinds == {"absent", "object", "not_object", "malformed"}

\* pending_safety_checks of a computer_call: none, one or two checks.
SafetyChecks == {"malicious_instructions", "irrelevant_domain"}
PendingLists ==
    { <<>>, <<"malicious_instructions">>,
      <<"malicious_instructions", "irrelevant_domain">> }

HandledItems ==
    { [type |-> t, call_id |-> c, arguments |-> a,
       pending_safety_checks |-> <<>>] :
        t \in HandledTypes \ {"computer_call"}, c \in 1..2,
        a \in ArgumentKinds }
    \cup { [type |-> "computer_call", call_id |-> c, arguments |-> "absent",
            pending_safety_checks |-> p] :
             c \in 1..2, p \in PendingLists }

\* What the computer does at the call, and the checks for which the
\* acknowledge callback, when asked, answers false.
Environments == {"browser", "mac"}
VisionPayloads == {"file_id", "inline_jpeg", "inline_png"}
NoEnv ==
    [has_method |-> FALSE, method_raises |-> FALSE, action_raises |-> FALSE,
     vision |-> "file_id", environment |-> "mac",
     current_url |-> <<"about", ":", "blank">>, declined |-> {}]

EnvsOf(item) ==
    CASE item.type = "function_call" ->
            { [NoEnv EXCEPT !.has_method = m, !.method_raises = r] :
                m \in BOOLEAN, r \in BOOLEAN }
      [] item.type = "computer_call" ->
            { [NoEnv EXCEPT !.action_raises = r, !.vision = v,
                            !.environment = "browser", !.current_url = u,
                            !.declined = d] :
                r \in BOOLEAN, v \in VisionPayloads, u \in CurrentUrls,
                d \in SUBSET Range(item.pending_safety_checks) }
            \cup { [NoEnv EXCEPT !.action_raises = r, !.vision = v,
                                 !.declined = d] :
                r \in BOOLEAN, v \in VisionPayloads,
                d \in SUBSET Range(item.pending_safety_checks) }
      [] OTHER -> {NoEnv}

\* What a call did to the outside, in order: a method of the computer was
\* invoked, or the acknowledge callback was invoked for a check.
Acted == [ev |-> "action", check |-> ""]
Asked(check) == [ev |-> "ask", check |-> check]

\* How a call ends: it raises or returns items, after some effects.
Raised(effects) == [raised |-> TRUE, items |-> <<>>, effects |-> effects]
Returned(items, effects) ==
    [raised |-> FALSE, items |-> items, effects |-> effects]

\* The function_call branch of handle_item.
HandleFunctionCall(item, env) ==
    IF item.arguments = "malformed"
    THEN Raised(<<>>)                       \* json.loads, outside the try
    ELSE LET status ==
                 IF ~env.has_method THEN "skipped"
                 ELSE IF item.arguments = "not_object" \/ env.method_raises
                      THEN "error: ..."
                      ELSE "success"
             effects ==
                 IF env.has_method /\ item.arguments # "not_object"
                 THEN <<Acted>> ELSE <<>>
         IN Returned(<<[type |-> "function_call_output",
                        call_id |-> item.call_id,
                        output |-> status]>>, effects)

\* The computer_call branch of handle_item.
HandleComputerCall(item, env) ==
    IF env.action_raises THEN Raised(<<Acted>>)
    ELSE LET img_payload == [type |-> "input_image", image |-> env.vision]
             pending_checks == item.pending_safety_checks
             call_output(output) ==
                 [type |-> "computer_call_output",
                  call_id |-> item.call_id,
                  acknowledged_safety_checks |-> pending_checks,
                  output |-> output]
         IN IF env.environment = "browser"
            THEN IF check_blocklisted_url(env.current_url)
                 THEN Raised(<<Acted>>)
                 ELSE Returned(<<call_output(
                          [type |-> "input_image", image |-> env.vision,
                           current_url |-> env.current_url])>>, <<Acted>>)
            ELSE Returned(<<call_output(img_payload)>>, <<Acted>>)

\* Agent.handle_item with its outcome: the items it returns, or that it
\* raises.
handle_item_outcome(item, env) ==
    CASE item.type = "message" -> Returned(<<>>, <<>>)
      [] item.type = "function_call" -> HandleFunctionCall(item, env)
      [] item.type = "reasoning" -> Returned(<<>>, <<>>)
      [] item.type = "computer_call" -> HandleComputerCall(item, env)
      [] OTHER -> Returned(<<>>, <<>>)

\* No outcome yet.
NoResult == <<>>

HandleInit ==
    /\ h_item = <<>> /\ h_env = <<>>
    /\ h_result = NoResult
    /\ h_pc = "dispatch"
    /\ FnIdleTurn
    /\ TurnIdleFn
    /\ UtilsIdle
    /\ PlaywrightIdle

\* run_full_turn reaches `new_items += self.handle_item(item)` with some
\* item of the response, the computer being in some condition.
HandleItemEnter ==
    /\ h_pc = "dispatch"
    /\ h_item' \in HandledItems
    /\ h_env' \in EnvsOf(h_item')
    /\ h_pc' = "called"
    /\ UNCHANGED <<h_result, non_handle_vars>>

\* handle_item runs to its return or its raise.
HandleItemCall ==
    /\ h_pc = "called"
    /\ h_result' = handle_item_outcome(h_item, h_env)
    /\ h_pc' = "done"
    /\ UNCHANGED <<h_item, h_env, non_handle_vars>>

NextHandle == HandleItemEnter \/ HandleItemCall

SpecHandle == HandleInit /\ [][NextHandle]_vars

\* The statuses a function_call_output carries.
Statuses == {"success", "skipped", "error: ..."}

\* The outcome is exactly one item of the given type for the handled call.
OneResultOf(type) ==
    /\ ~h_result.raised
    /\ Len(h_result.items) = 1
    /\ h_result.items[1].type = type
    /\ h_result.items[1].call_id = h_item.call_id

\* What C27 says of the handled item, of whatever kind it is.
DispatchResult ==
    /\ h_item.type = "function_call" =>
          OneResultOf("function_call_output")
              /\ h_result.items[1].output \in Statuses
    /\ (h_item.type = "computer_call" /\ ~h_result.raised) =>
          OneResultOf("computer_call_output")
    /\ h_item.type \in {"reasoning", "message"} =>
          ~h_result.raised /\ h_result.items = <<>>

\* C27: handling a function_call always yields exactly one
\* function_call_output with the same call_id whose output is 'success',
\* 'skipped' or an 'error: ...' status; handling a computer_call that
\* completes yields exactly one computer_call_output with the same call_id;
\* handling a reasoning item or a message yields no result item.
C27_DispatchResults ==
    h_pc = "done" => DispatchResult

\* C27, for the calls the code does answer: the same, for every item but a
\* function_call whose arguments are not JSON.
C27_WhenArgumentsParse ==
    (h_pc = "done"
        /\ ~(h_item.type = "function_call" /\ h_item.arguments = "malformed"))
    => DispatchResult

\* The labels of a host name: its pieces split at the dots.
RECURSIVE SplitLabels(_)
SplitLabels(s) ==
    IF s = <<>> THEN << <<>> >>
    ELSE LET rest == SplitLabels(Tail(s)) IN
         IF Head(s) = "." THEN << <<>> >> \o rest
         ELSE << <<Head(s)>> \o rest[1] >> \o Tail(rest)

\* The host is a blocked domain or a subdomain of one: its last labels are
\* the labels of a blocked domain.
BlockedOrSubdomain(host) ==
    \E blocked \in BLOCKED_DOMAINS :
        LET hl == SplitLabels(host)
            bl == SplitLabels(blocked)
        IN Len(hl) >= Len(bl)
              /\ \A k \in 1..Len(bl) : hl[Len(hl) - Len(bl) + k] = bl[k]

\* A computer_call was handled in a browser and its action went through.
AfterBrowserAction ==
    /\ h_pc = "done"
    /\ h_item.type = "computer_call"
    /\ h_env.environment = "browser"
    /\ ~h_env.action_raises

C28_LookalikeAllowed ==
    (AfterBrowserAction
        /\ Hostname(h_env.current_url) = <<"not", "maliciousbook", ".", "com">>)
    => (~h_result.raised
          /\ h_result.items[1].output.current_url = h_env.current_url)

\* ---------------------------------------------------------------------
\* The helpers of utils.py that work on items, used on a list of items:
\* sanitize_message on each item, and the strip_model_only_items that
\* tests/test_sanitize.py imports from utils.

\* Longest list of items a helper is used on.
MaxItems == 3

\* Items of the kinds the test and sanitize_message name; image_url is the
\* image_url of the output of a computer_call_output.
UtilsItems ==
    { [type |-> t, image_url |-> "absent"] :
        t \in {"input_text", "reasoning", "tool_result", "output_text",
               "computer_call_output"} }
      \cup { [type |-> "computer_call_output", image_url |-> "data:..."] }

\* The names utils.py defines or imports at its top level.
UtilsNames ==
    { "load_dotenv", "io", "urlparse", "Image", "BytesIO", "base64", "os",
      "json", "time", "random", "requests", "HTTPAdapter", "Retry",
      "BLOCKED_DOMAINS", "_make_session", "_SESSION",
      "compress_b64_png_to_jpeg_bytes", "upload_image_get_file_id", "pp",
      "show_image", "calculate_image_dimensions", "sanitize_message",
      "create_response", "check_blocklisted_url" }

\* `from utils import name`: "" when the name is there, else the error.
ImportFromUtils(name) == IF name \in UtilsNames THEN "" ELSE "ImportError"

\* utils.sanitize_message.
sanitize_message(m) ==
    IF m.type = "computer_call_output"
    THEN [m EXCEPT !.image_url = "[omitted]"]
    ELSE m

UtilsInit ==
    /\ u_items = <<>>
    /\ u_result = [raised |-> "", items |-> <<>>]
    /\ u_pc = "start"
    /\ FnIdleTurn
    /\ TurnIdleFn
    /\ HandleIdle
    /\ PlaywrightIdle

\* A list of items is at hand.
UtilsItemsGiven ==
    /\ u_pc = "start"
    /\ \E n \in 0..MaxItems : u_items' \in [1..n -> UtilsItems]
    /\ u_pc' = "given"
    /\ UNCHANGED <<u_result, non_utils_vars>>

\* Each item goes through sanitize_message.
SanitizeItems ==
    /\ u_pc = "given"
    /\ u_result' = [raised |-> "",
                    items |-> [k \in 1..Len(u_items) |->
                                  sanitize_message(u_items[k])]]
    /\ u_pc' = "sanitized"
    /\ UNCHANGED <<u_items, non_utils_vars>>

\* tests/test_sanitize.py: `from utils import strip_model_only_items`, then
\* strip_model_only_items(items). utils.py has no such name: the import
\* raises and the function is never entered.
StripModelOnlyItems ==
    /\ u_pc = "given"
    /\ u_result' = [raised |-> ImportFromUtils("strip_model_only_items"),
                    items |-> <<>>]
    /\ u_pc' = "stripped"
    /\ UNCHANGED <<u_items, non_utils_vars>>

NextUtils == UtilsItemsGiven \/ SanitizeItems \/ StripModelOnlyItems

SpecUtils == UtilsInit /\ [][NextUtils]_vars

\* The item is one only the model reads.
ModelOnly(i) == i.type \in {"reasoning", "output_text"}

\* The items that are not model-only, in their order.
WithoutModelOnly(items) == SelectSeq(items, LAMBDA i : ~ModelOnly(i))

\* C29: utils.strip_model_only_items(items) returns the items with every
\* item of type 'reasoning' or 'output_text' removed and every other item
\* kept unchanged.
C29_StripModelOnly ==
    u_pc = "stripped" =>
        u_result.raised = "" /\ u_result.items = WithoutModelOnly(u_items)

\* C29, what utils.py does have: sanitize_message removes no item, so no
\* helper of utils.py returns the list without its model-only items.
C29_SanitizeKeepsEveryItem ==
    u_pc = "sanitized" =>
        /\ Len(u_result.items) = Len(u_items)
        /\ \A k \in 1..Len(u_items) : u_result.items[k].type = u_items[k].type

\* -------------------------------------- _compact_items_for_next_request
\* Most recent calls and reasoning items the resilience step looks at.
MaxKeepCalls == 2
MaxKeepReasons == 2

\* nearest_reasoning_before(idx_in_all): position of the nearest reasoning
\* item of the log before position p, 0 when there is none.
nearest_reasoning_before(all_items, p) ==
    LET R == {j \in 1..(p - 1) : all_items[j].type = "reasoning"}
    IN IF R = {} THEN 0 ELSE Max(R)

\* nearest_call_after(idx_in_all): position of the next computer_call of
\* the log after position p, 0 when there is none.
nearest_call_after(all_items, p) == NextCallAfter(all_items, p)

\* The latest computer_call of the log with call id cid, 0 when none.
LatestCall(all_items, cid) ==
    LET C == {j \in 1..Len(all_items) :
                 /\ all_items[j].type = "computer_call"
                 /\ all_items[j].call_id = cid}
    IN IF C = {} THEN 0 ELSE Max(C)

\* Step 1, `for call_id in list(needed_call_ids)` over the ids still to
\* do: an id with no call in the tail as it was before the loop gets the
\* latest call of the log inserted in front of its first output.
RECURSIVE InsertNeededCalls(_, _, _, _)
InsertNeededCalls(all_items, tail, todo, have) ==
    IF todo = {} THEN tail
    ELSE
      LET call_id == Min(todo)
          call_item == LatestCall(all_items, call_id)
      IN IF call_id \in have \/ call_item = 0
         THEN InsertNeededCalls(all_items, tail, todo \ {call_id}, have)
         ELSE InsertNeededCalls(
                  all_items,
                  InsertAt(tail, FirstOutIdx(all_items, tail, call_id),
                           call_item),
                  todo \ {call_id}, have)

\* Step 2, the `while i < len(tail)` loop from position i on: a
\* computer_call with no reasoning item right before it gets the nearest
\* reasoning before it in the log inserted at its position, or popped
\* from where it stands in the tail and inserted at position i.
RECURSIVE PlaceNearestReasoning(_, _, _)
PlaceNearestReasoning(all_items, tail, i) ==
    IF i > Len(tail) THEN tail
    ELSE IF all_items[tail[i]].type # "computer_call"
         THEN PlaceNearestReasoning(all_items, tail, i + 1)
    ELSE IF i - 1 >= 1 /\ all_items[tail[i - 1]].type = "reasoning"
         THEN PlaceNearestReasoning(all_items, tail, i + 1)
    ELSE
      LET r == nearest_reasoning_before(all_items, tail[i])
      IN IF r = 0 THEN PlaceNearestReasoning(all_items, tail, i + 1)
         ELSE IF ~InReq(all_items, tail, r)
              THEN PlaceNearestReasoning(all_items, InsertAt(tail, i, r), i + 2)
         ELSE IF IndexOf(all_items, tail, r) # i - 1
              THEN PlaceNearestReasoning(
                       all_items,
                       InsertAt(RemoveAt(tail, IndexOf(all_items, tail, r)),
                                i, r),
                       i + 2)
         ELSE PlaceNearestReasoning(all_items, tail, i + 1)

\* Step 3: keep_reasoning_ids, the nearest reasoning before each
\* computer_call of the tail.
KeepReasoningIds(all_items, tail) ==
    {nearest_reasoning_before(all_items, tail[k]) :
        k \in {j \in 1..Len(tail) : all_items[tail[j]].type = "computer_call"}}
    \ {0}

\* Step 3: the reasoning items that serve no call of the tail are dropped.
DropUnkeptReasoning(all_items, tail) ==
    Without(tail, {tail[k] : k \in {j \in 1..Len(tail) :
                       /\ all_items[tail[j]].type = "reasoning"
                       /\ tail[j] \notin KeepReasoningIds(all_items, tail)}})

\* The last `keep` items of type t of the log, oldest first:
\* reversed(recent[:keep]).
RECURSIVE LastOf(_, _)
LastOf(s, keep) ==
    IF Len(s) <= keep THEN s ELSE LastOf(Tail(s), keep)

Recent(all_items, t, keep) ==
    LastOf(OfType(all_items, [k \in 1..Len(all_items) |-> k], t), keep)

\* Step 4, first loop: each recent call not in the tail is appended.
RECURSIVE AppendRecentCalls(_, _, _)
AppendRecentCalls(all_items, tail, calls) ==
    IF calls = <<>> THEN tail
    ELSE IF InReq(all_items, tail, Head(calls))
         THEN AppendRecentCalls(all_items, tail, Tail(calls))
         ELSE AppendRecentCalls(all_items, Append(tail, Head(calls)),
                                Tail(calls))

\* Step 4, second loop: each recent reasoning not in the tail is inserted
\* in front of the next call after it in the log, when the tail has it.
RECURSIVE InsertRecentReasons(_, _, _)
InsertRecentReasons(all_items, tail, reasons) ==
    IF reasons = <<>> THEN tail
    ELSE
      LET r == Head(reasons)
          following_call == nearest_call_after(all_items, r)
      IN IF InReq(all_items, tail, r)
         THEN InsertRecentReasons(all_items, tail, Tail(reasons))
         ELSE IF following_call # 0 /\ InReq(all_items, tail, following_call)
              THEN InsertRecentReasons(
                       all_items,
                       InsertAt(tail, IndexOf(all_items, tail, following_call), r),
                       Tail(reasons))
              ELSE InsertRecentReasons(all_items, tail, Tail(reasons))

\* The tail after steps 1 to 3. The statements before step 1 are those of
\* _compact_base.
CompactedTail(all_items, keep_images, keep_tail) ==
    LET tail0 == _compact_base(all_items, keep_images, keep_tail)
        needed == CallIds(all_items, tail0, "computer_call_output") \ {0}
        have == CallIds(all_items, tail0, "computer_call") \ {0}
        tail1 == InsertNeededCalls(all_items, tail0, needed, have)
        tail2 == PlaceNearestReasoning(all_items, tail1, 1)
    IN DropUnkeptReasoning(all_items, tail2)

_compact_items_for_next_request(all_items, keep_images, keep_tail, keep_calls, keep_reasons) ==
    IF all_items = <<>> THEN <<>>
    ELSE
      LET tail3 == CompactedTail(all_items, keep_images, keep_tail)
          tail4 == AppendRecentCalls(
                       all_items, tail3,
                       Recent(all_items, "computer_call", keep_calls))
      IN InsertRecentReasons(all_items, tail4,
                             Recent(all_items, "reasoning", keep_reasons))

\* request = _compact_items_for_next_request(all_items, keep_images,
\*                                           keep_tail, keep_calls,
\*                                           keep_reasons)
FnCompactItems ==
    /\ fn_pc = "log"
    /\ \E ki \in 0..MaxKeepImages, kt \in 0..MaxKeepTail,
          kc \in 0..MaxKeepCalls, kr \in 0..MaxKeepReasons :
          /\ fn_result' = _compact_items_for_next_request(
                              fn_all_items, ki, kt, kc, kr)
          /\ fn_keep' = <<ki, kt, kc, kr>>
    /\ fn_pc' = "compacted_items"
    /\ UNCHANGED <<fn_all_items, fn_request, fn_again, fn_request_left,
                   non_fn_vars>>

FnNextCompactItems == FnAppend \/ FnCompactItems

SpecFnCompactItems == FnInit /\ [][FnNextCompactItems]_vars

\* Position k of the result holds a computer_call that has some reasoning
\* item before it in the log.
CallWithReasoningBefore(k) ==
    /\ fn_all_items[fn_result[k]].type = "computer_call"
    /\ nearest_reasoning_before(fn_all_items, fn_result[k]) # 0

\* C30: in the list returned by _compact_items_for_next_request, every
\* computer_call that has some reasoning item before it in the history is
\* immediately preceded by a reasoning item, its nearest prior reasoning;
\* so are the recent calls the resilience step adds.
C30_CallsPrecededByReasoning ==
    fn_pc = "compacted_items" =>
        \A k \in 1..Len(fn_result) :
            CallWithReasoningBefore(k) =>
                /\ k > 1
                /\ fn_result[k - 1] =
                       nearest_reasoning_before(fn_all_items, fn_result[k])

\* C31: in the list returned by _compact_items_for_next_request every
\* reasoning item is immediately followed by a computer_call: no lone
\* reasoning item is left or re-introduced.
C31_ReasoningFollowedByCall ==
    fn_pc = "compacted_items" =>
        \A k \in 1..Len(fn_result) :
            fn_all_items[fn_result[k]].type = "reasoning" =>
                /\ k < Len(fn_result)
                /\ fn_all_items[fn_result[k + 1]].type = "computer_call"

\* No position of the log stands twice in the request.
NoItemTwice(request) ==
    \A a, b \in 1..Len(request) : a # b => request[a] # request[b]

\* C32: no request sent by run_full_turn contains the same log item twice,
\* after pairing repair, adjacency repair and forced inclusion.
C32_NoItemTwice ==
    pc = "send" => NoItemTwice(next_input)

\* C32 witness: a retry with forced inclusion has built a request that
\* holds a reasoning item, its call and the call's result, and leaves out
\* part of the log.
C32_Witness ==
    /\ pc = "send"
    /\ built_by = "A"
    /\ Len(next_input) < Len(AllItems)
    /\ \E a, b, c \in 1..Len(next_input) :
          /\ a + 1 = b /\ b < c
          /\ AllItems[next_input[a]].type = "reasoning"
          /\ AllItems[next_input[b]].type = "computer_call"
          /\ AllItems[next_input[c]].type = "computer_call_output"
          /\ AllItems[next_input[c]].call_id = AllItems[next_input[b]].call_id

\* The positions of the request that hold an input_image.
ImagePositions(all_items, request) ==
    {k \in 1..Len(request) : all_items[request[k]].type = "input_image"}

\* The input_image items of the tail before the image filter: the tail
\* window and the latest user message hold every candidate.
TailImages ==
    {p \in 1..Len(fn_all_items) :
        /\ fn_all_items[p].type = "input_image"
        /\ p >= TailStart(Len(fn_all_items), fn_keep[2])}

\* C33: for every keep_images >= 0, 0 included, the output of _compact_base
\* holds at most keep_images items of type input_image, and those kept are
\* the most recent ones of the tail.
C33_AtMostKeepImages ==
    fn_pc = "compacted" =>
        /\ Cardinality(ImagePositions(fn_all_items, fn_request)) <= fn_keep[1]
        /\ \A k \in ImagePositions(fn_all_items, fn_request) :
              \A p \in TailImages :
                  p > fn_request[k] =>
                      \E j \in 1..Len(fn_request) : fn_request[j] = p

\* C33, for keep_images >= 1: the same statement holds.
C33_WhenKeepImagesPositive ==
    (fn_pc = "compacted" /\ fn_keep[1] >= 1) =>
        /\ Cardinality(ImagePositions(fn_all_items, fn_request)) <= fn_keep[1]
        /\ \A k \in ImagePositions(fn_all_items, fn_request) :
              \A p \in TailImages :
                  p > fn_request[k] =>
                      \E j \in 1..Len(fn_request) : fn_request[j] = p

\* The full log as a request: every position, in order.
WholeLog == [k \in 1..Len(AllItems) |-> k]

\* C34: log integrity: at every point of run_full_turn every
\* computer_call_output and function_call_output of input_items + new_items
\* is preceded in that log by the computer_call or function_call with the
\* same call_id, so no output of the log carries a call_id that the
\* Enforcer cannot find among the log's calls.
C34_LogIntegrity ==
    /\ PairedBefore(AllItems, WholeLog, "computer_call_output", "computer_call")
    /\ PairedBefore(AllItems, WholeLog, "function_call_output", "function_call")
    /\ DanglingIds(AllItems, WholeLog) = {}

\* C34 witness: in a later turn the log holds the result of a computer_call
\* of an earlier turn and, from this turn, the result of a function_call.
C34_Witness ==
    /\ pc = "dispatch"
    /\ Len(input_items) > 1
    /\ \E k \in 1..Len(input_items) :
          input_items[k].type = "computer_call_output"
    /\ \E k \in 1..Len(new_items) :
          new_items[k].type = "function_call_output"

\* The type of the result item of a call of the given type.
ResultType(call_type) ==
    IF call_type = "computer_call" THEN "computer_call_output"
    ELSE "function_call_output"

\* Positions of the results of the call at position k of the items.
ResultsOf(items, k) ==
    {j \in 1..Len(items) :
        /\ items[j].type = ResultType(items[k].type)
        /\ items[j].call_id = items[k].call_id}

\* run_full_turn has returned because the last new item is an assistant
\* message, with no stop requested.
ReturnedOnAssistant ==
    /\ pc = "returned"
    /\ ~request_stop
    /\ new_items # <<>>
    /\ new_items[Len(new_items)].role = "assistant"

\* C35: when run_full_turn returns because the last item is an assistant
\* message (no cancellation, no abort, no exception), every computer_call
\* and every function_call of the returned items has exactly one result
\* item with the same call_id later in the returned items.
C35_EveryCallAnswered ==
    ReturnedOnAssistant =>
        \A k \in 1..Len(new_items) :
            new_items[k].type \in {"computer_call", "function_call"} =>
                /\ Cardinality(ResultsOf(new_items, k)) = 1
                /\ \A j \in ResultsOf(new_items, k) : j > k

\* C35 witness: the turn has returned on an assistant message after a
\* computer_call and a function_call were dispatched.
C35_Witness ==
    /\ ReturnedOnAssistant
    /\ \E k \in 1..Len(new_items) : new_items[k].type = "computer_call"
    /\ \E k \in 1..Len(new_items) : new_items[k].type = "function_call"

\* The checks the acknowledge callback was invoked for during the call.
AskedChecks ==
    {h_result.effects[k].check :
        k \in {j \in 1..Len(h_result.effects) : h_result.effects[j].ev = "ask"}}

\* C36: Agent.handle_item lists a pending safety check under
\* acknowledged_safety_checks of a computer_call_output only if
\* acknowledge_safety_check_callback was invoked for that check and
\* returned true.
C36_AcknowledgedOnlyIfAsked ==
    (h_pc = "done" /\ h_item.type = "computer_call" /\ ~h_result.raised) =>
        \A c \in Range(h_result.items[1].acknowledged_safety_checks) :
            c \in AskedChecks /\ c \notin h_env.declined

\* C36, what the code does: every pending check of the call is listed as
\* acknowledged, and the callback is never invoked.
C36_AllListedNoneAsked ==
    (h_pc = "done" /\ h_item.type = "computer_call" /\ ~h_result.raised) =>
        /\ h_result.items[1].acknowledged_safety_checks
              = h_item.pending_safety_checks
        /\ AskedChecks = {}

\* ---------------------------------------------------------------------
\* simple_cua_loop.handle_item, followed the same way.

\* `for check in pending_checks`: the callback is invoked for each check in
\* turn, up to and including the first one it declines.
RECURSIVE AskInTurn(_, _)
AskInTurn(pending_checks, declined) ==
    IF pending_checks = <<>> THEN <<>>
    ELSE IF Head(pending_checks) \in declined
         THEN <<Asked(Head(pending_checks))>>
         ELSE <<Asked(Head(pending_checks))>>
                  \o AskInTurn(Tail(pending_checks), declined)

\* simple_cua_loop.handle_item with its outcome.
simple_handle_item(item, env) ==
    IF item.type # "computer_call" THEN Returned(<<>>, <<>>)
    ELSE IF env.action_raises THEN Raised(<<Acted>>)
    ELSE
      LET pending_checks == item.pending_safety_checks
          asked == AskInTurn(pending_checks, env.declined)
          output == [type |-> "input_image", image |-> "inline_png"]
          call_output(payload) ==
              [type |-> "computer_call_output",
               call_id |-> item.call_id,
               acknowledged_safety_checks |-> pending_checks,
               output |-> payload]
      IN IF Range(pending_checks) \cap env.declined # {}
         THEN Raised(<<Acted>> \o asked)
         ELSE IF env.environment = "browser"
              THEN IF check_blocklisted_url(env.current_url)
                   THEN Raised(<<Acted>> \o asked)
                   ELSE Returned(<<call_output(
                            [type |-> "input_image", image |-> "inline_png",
                             current_url |-> env.current_url])>>,
                            <<Acted>> \o asked)
              ELSE Returned(<<call_output(output)>>, <<Acted>> \o asked)

\* simple_cua_loop.handle_item runs to its return or its raise.
SimpleHandleItemCall ==
    /\ h_pc = "called"
    /\ h_result' = simple_handle_item(h_item, h_env)
    /\ h_pc' = "done"
    /\ UNCHANGED <<h_item, h_env, non_handle_vars>>

NextSimpleHandle == HandleItemEnter \/ SimpleHandleItemCall

SpecSimpleHandle == HandleInit /\ [][NextSimpleHandle]_vars

\* Positions of the effects of the given kind.
EffectsAt(ev) ==
    {k \in 1..Len(h_result.effects) : h_result.effects[k].ev = ev}

\* C37: in simple_cua_loop.handle_item a computer_call carrying a pending
\* safety check that the user declines is not executed against the
\* computer: the acknowledgement is obtained before the action runs, and a
\* declined check leaves the computer untouched.
C37_DeclinedNotExecuted ==
    (h_pc = "done" /\ h_item.type = "computer_call") =>
        /\ \A a \in EffectsAt("action"), q \in EffectsAt("ask") : q < a
        /\ Range(h_item.pending_safety_checks) \cap h_env.declined # {} =>
              EffectsAt("action") = {}

\* C37, what the code does keep: a call with a declined check returns no
\* computer_call_output, and a call that returns one has had every pending
\* check asked and accepted.
C37_DeclinedGivesNoOutput ==
    (h_pc = "done" /\ h_item.type = "computer_call") =>
        IF Range(h_item.pending_safety_checks) \cap h_env.declined # {}
        THEN h_result.raised /\ h_result.items = <<>>
        ELSE ~h_result.raised =>
                 AskedChecks = Range(h_item.pending_safety_checks)

\* ------------------------------------------------------------------
\* BasePlaywrightComputer (src/computers/shared/base_playwright.py):
\* the browser it drives, its recovery, screenshot, keypress and goto.
\* ------------------------------------------------------------------

MaxGotos == 2      \* goto calls followed on one computer
MaxKeys == 2       \* keys of one keypress call

\* Key names are sequences of characters, so that strip(), lower() and
\* "+".join() are computed on them.
UpperLetters == <<"A", "B", "C", "D", "E", "F", "G", "H", "I", "J", "K", "L", "M", "N", "O", "P", "Q", "R", "S", "T", "U", "V", "W", "X", "Y", "Z">>

LowerLetters == <<"a", "b", "c", "d", "e", "f", "g", "h", "i", "j", "k", "l", "m", "n", "o", "p", "q", "r", "s", "t", "u", "v", "w", "x", "y", "z">>

\* str.lower() of one character, then of a key.
lower_char(c) ==
    IF \E i \in DOMAIN UpperLetters : UpperLetters[i] = c
    THEN LowerLetters[CHOOSE i \in DOMAIN UpperLetters : UpperLetters[i] = c]
    ELSE c

lower(k) == [i \in DOMAIN k |-> lower_char(k[i])]

\* str.strip(): leading and trailing blanks go.
RECURSIVE lstrip(_)
lstrip(k) == IF k # <<>> /\ Head(k) = " " THEN lstrip(Tail(k)) ELSE k

RECURSIVE rstrip(_)
rstrip(k) ==
    IF k # <<>> /\ k[Len(k)] = " " THEN rstrip(SubSeq(k, 1, Len(k) - 1)) ELSE k

strip(k) == rstrip(lstrip(k))

KeyMeta == <<"M", "e", "t", "a">>
KeyControl == <<"C", "o", "n", "t", "r", "o", "l">>
KeyAlt == <<"A", "l", "t">>
KeyShift == <<"S", "h", "i", "f", "t">>
KeyEnter == <<"E", "n", "t", "e", "r">>

\* The modifier entries and the Enter entries of the table; the other
\* entries name keys that no key of RawKeys spells.
CUA_KEY_TO_PLAYWRIGHT_KEY ==
    { <<<<"c", "m", "d">>, KeyMeta>>,
      <<<<"c", "o", "m", "m", "a", "n", "d">>, KeyMeta>>,
      <<<<"s", "u", "p", "e", "r">>, KeyMeta>>,
      <<<<"w", "i", "n">>, KeyMeta>>,
      <<<<"c", "t", "r", "l">>, KeyControl>>,
      <<<<"c", "o", "n", "t", "r", "o", "l">>, KeyControl>>,
      <<<<"a", "l", "t">>, KeyAlt>>,
      <<<<"o", "p", "t", "i", "o", "n">>, KeyAlt>>,
      <<<<"o", "p", "t">>, KeyAlt>>,
      <<<<"s", "h", "i", "f", "t">>, KeyShift>>,
      <<<<"e", "n", "t", "e", "r">>, KeyEnter>>,
      <<<<"r", "e", "t", "u", "r", "n">>, KeyEnter>> }

MOD_KEYS == {KeyShift, KeyControl, KeyAlt, KeyMeta}

\* _normalize_key: the table entry of the stripped, lowered key, else the
\* stripped key as it is.  The test `k == " "` comes after the strip and
\* so never holds.
_normalize_key(k) ==
    LET stripped == strip(k)
        low == lower(stripped)
    IN  IF \E e \in CUA_KEY_TO_PLAYWRIGHT_KEY : e[1] = low
        THEN (CHOOSE e \in CUA_KEY_TO_PLAYWRIGHT_KEY : e[1] = low)[2]
        ELSE stripped

\* The keys a keypress action is given in the model.
RawKeys ==
    { <<"c", "t", "r", "l">>,
      <<" ", "C", "o", "n", "t", "r", "o", "l", " ">>,
      <<"R">>,
      <<"r">>,
      <<"s", "h", "i", "f", "t">>,
      <<>> }

KeyLists == UNION {[1..n -> RawKeys] : n \in 0..MaxKeys}

\* "+".join(keys)
RECURSIVE JoinPlus(_)
JoinPlus(keys) ==
    IF keys = <<>> THEN <<>>
    ELSE IF Len(keys) = 1 THEN keys[1]
    ELSE keys[1] \o <<"+">> \o JoinPlus(Tail(keys))

\* [f(k) for k in keys]
RECURSIVE NormalizeAll(_)
NormalizeAll(keys) ==
    IF keys = <<>> THEN <<>>
    ELSE <<_normalize_key(Head(keys))>> \o NormalizeAll(Tail(keys))

IsTruthyKey(k) == k # <<>>
IsMod(k) == k \in MOD_KEYS
IsNonMod(k) == k \notin MOD_KEYS

Blank == "about:blank"
Urls == {"", Blank, "https://a.example/", "https://b.example/"}

\* What the collaborators do during one call: whether starting a browser,
\* context or page fails, whether the recovery navigation fails, and
\* whether the page method the call itself makes (screenshot, goto,
\* reload) fails.
Recoveries == {"ok", "launch_fails", "nav_fails"}

\* The computer as the methods read it.
Computer ==
    [browser |-> p_browser, context |-> p_context, page |-> p_page,
     other_pages |-> p_other_pages, url |-> p_url,
     shutting_down |-> p_shutting_down, home_url |-> p_home_url]

\* What a fresh page shows once the recovery has tried the home URL.
HomeShown(s, recovery) ==
    IF s.home_url # "" /\ s.home_url # Blank /\ recovery # "nav_fails"
    THEN s.home_url
    ELSE Blank

\* _ensure_active_page: nothing while shutting down; a closed browser is
\* relaunched, a closed context recreated, a closed page replaced by the
\* last open page or by a new one.  Starting any of them may raise.
_ensure_active_page(s, recovery) ==
    IF s.shutting_down THEN [s |-> s, raised |-> FALSE]
    ELSE IF s.browser = "closed" THEN
        IF recovery = "launch_fails" THEN [s |-> s, raised |-> TRUE]
        ELSE [s |-> [s EXCEPT !.browser = "open", !.context = "open",
                               !.page = "open", !.other_pages = <<>>,
                               !.url = HomeShown(s, recovery)],
              raised |-> FALSE]
    ELSE IF s.context = "closed" THEN
        IF recovery = "launch_fails" THEN [s |-> s, raised |-> TRUE]
        ELSE [s |-> [s EXCEPT !.context = "open", !.page = "open",
                               !.other_pages = <<>>,
                               !.url = HomeShown(s, recovery)],
              raised |-> FALSE]
    ELSE IF s.page = "closed" THEN
        IF s.other_pages # <<>>
        THEN [s |-> [s EXCEPT !.page = "open",
                               !.url = s.other_pages[Len(s.other_pages)],
                               !.other_pages = SubSeq(s.other_pages, 1,
                                                Len(s.other_pages) - 1)],
              raised |-> FALSE]
        ELSE IF recovery = "launch_fails" THEN [s |-> s, raised |-> TRUE]
        ELSE [s |-> [s EXCEPT !.page = "open",
                               !.url = HomeShown(s, recovery)],
              raised |-> FALSE]
    ELSE [s |-> s, raised |-> FALSE]

\* Bytes of a PNG, and their base64 text.
BlankPng == [png |-> "1x1"]
page_screenshot(url) == [png |-> url]
b64encode(png_bytes) == [b64 |-> png_bytes]
_BLANK_PNG_B64 == b64encode(BlankPng)
NoValue == [none |-> TRUE]

PageCall(op, arg) == [op |-> op, arg |-> arg]

Outcome(s, raised, value, page_calls) ==
    [s |-> s, raised |-> raised, value |-> value, page_calls |-> page_calls]

\* The try block of screenshot: recovery, then the capture of the page.
\* _update_timestamp_dom and _append_to_video swallow their own errors.
screenshot_try(s, recovery, page_fails) ==
    LET e == _ensure_active_page(s, recovery)
    IN  IF e.raised THEN Outcome(e.s, TRUE, NoValue, <<>>)
        ELSE IF e.s.page # "open" \/ page_fails
             THEN Outcome(e.s, TRUE, NoValue, <<>>)
        ELSE Outcome(e.s, FALSE, b64encode(page_screenshot(e.s.url)),
                     <<PageCall("screenshot", <<>>)>>)

\* screenshot as it would be without its except clause.
screenshot_without_except(s, recovery, page_fails) ==
    screenshot_try(s, recovery, page_fails)

\* screenshot: the try block, and the blank PNG when it raised.
screenshot(s, recovery, page_fails) ==
    LET t == screenshot_try(s, recovery, page_fails)
    IN  IF t.raised THEN Outcome(t.s, FALSE, _BLANK_PNG_B64, t.page_calls)
        ELSE t

\* goto: the home URL is set from every non-blank url, then recovery and
\* navigation; any error is printed, not raised.
goto(s, url, recovery, page_fails) ==
    LET s1 == IF url # "" /\ url # Blank THEN [s EXCEPT !.home_url = url] ELSE s
        e == _ensure_active_page(s1, recovery)
    IN  IF e.raised \/ e.s.page # "open" \/ page_fails
        THEN Outcome(e.s, FALSE, NoValue, <<>>)
        ELSE Outcome([e.s EXCEPT !.url = url], FALSE, NoValue,
                     <<PageCall("goto", url)>>)

\* page.keyboard.press of each key of a list; a closed page raises.
Presses(s, combos) ==
    IF s.page # "open" THEN Outcome(s, TRUE, NoValue, <<>>)
    ELSE Outcome(s, FALSE, NoValue,
                 [i \in DOMAIN combos |-> PageCall("press", combos[i])])

\* keypress: recovery, then the chord branch, the Control+R branch, the
\* single key and the sequence, in the order of the source.
keypress(s, keys, recovery, page_fails) ==
    LET e == _ensure_active_page(s, recovery)
        mapped == NormalizeAll(SelectSeq(keys, IsTruthyKey))
        mods == SelectSeq(mapped, IsMod)
        nonmods == SelectSeq(mapped, IsNonMod)
    IN  IF e.raised THEN Outcome(e.s, TRUE, NoValue, <<>>)
        ELSE IF keys = <<>> THEN Outcome(e.s, FALSE, NoValue, <<>>)
        ELSE IF mods # <<>> /\ Len(nonmods) = 1
             THEN Presses(e.s, <<JoinPlus(mods \o <<nonmods[1]>>)>>)
        ELSE IF Range(mods) = {KeyControl} /\ nonmods = <<<<"R">>>>
             THEN IF e.s.page = "open" /\ ~page_fails
                  THEN Outcome(e.s, FALSE, NoValue,
                               <<PageCall("reload", <<>>)>>)
                  ELSE Presses(e.s, <<KeyMeta \o <<"+", "R">>>>)
        ELSE IF Len(mapped) = 1 THEN Presses(e.s, <<mapped[1]>>)
        ELSE Presses(e.s, mapped)

NoKeys == <<>>

Call(op, keys, url, recovery, page_fails) ==
    [op |-> op, keys |-> keys, url |-> url, recovery |-> recovery,
     page_fails |-> page_fails]

\* After __init__ and __enter__: browser, context and page are open and
\* the home URL is about:blank.
PlaywrightInit ==
    /\ p_browser = "open" /\ p_context = "open" /\ p_page = "open"
    /\ p_other_pages = <<>>
    /\ p_url = Blank
    /\ p_shutting_down = FALSE
    /\ p_home_url = Blank
    /\ p_gotos = <<>>
    /\ p_call = Call("__enter__", NoKeys, "", "ok", FALSE)
    /\ p_result = [raised |-> FALSE, value |-> NoValue, page_calls |-> <<>>]
    /\ FnIdleTurn
    /\ TurnIdleFn
    /\ HandleIdle
    /\ UtilsIdle

\* The computer is left as a call leaves it.
Becomes(o) ==
    /\ p_browser' = o.s.browser
    /\ p_context' = o.s.context
    /\ p_page' = o.s.page
    /\ p_other_pages' = o.s.other_pages
    /\ p_url' = o.s.url
    /\ p_shutting_down' = o.s.shutting_down
    /\ p_home_url' = o.s.home_url
    /\ p_result' = [raised |-> o.raised, value |-> o.value,
                    page_calls |-> o.page_calls]

PwScreenshot ==
    \E recovery \in Recoveries, page_fails \in BOOLEAN :
        /\ Becomes(screenshot(Computer, recovery, page_fails))
        /\ p_call' = Call("screenshot", NoKeys, "", recovery, page_fails)
        /\ UNCHANGED <<p_gotos, non_playwright_vars>>

PwGoto ==
    \E url \in Urls, recovery \in Recoveries, page_fails \in BOOLEAN :
        /\ Len(p_gotos) < MaxGotos
        /\ Becomes(goto(Computer, url, recovery, page_fails))
        /\ p_gotos' = Append(p_gotos, url)
        /\ p_call' = Call("goto", NoKeys, url, recovery, page_fails)
        /\ UNCHANGED non_playwright_vars

PwKeypress ==
    \E keys \in KeyLists, recovery \in Recoveries, page_fails \in BOOLEAN :
        /\ Becomes(keypress(Computer, keys, recovery, page_fails))
        /\ p_call' = Call("keypress", keys, "", recovery, page_fails)
        /\ UNCHANGED <<p_gotos, non_playwright_vars>>

\* The user closes the active tab.
UserClosesPage ==
    /\ ~p_shutting_down /\ p_page = "open"
    /\ p_page' = "closed"
    /\ UNCHANGED <<p_browser, p_context, p_other_pages, p_url,
                   p_shutting_down, p_home_url, p_gotos, p_call, p_result,
                   non_playwright_vars>>

\* The user opens another tab: _on_new_page makes it the active page, and
\* the page that was active, if open, stays in the context.
UserOpensPage ==
    /\ ~p_shutting_down /\ p_context = "open" /\ p_other_pages = <<>>
    /\ p_other_pages' = IF p_page = "open" THEN <<p_url>> ELSE <<>>
    /\ p_page' = "open"
    /\ p_url' = Blank
    /\ UNCHANGED <<p_browser, p_context, p_shutting_down, p_home_url,
                   p_gotos, p_call, p_result, non_playwright_vars>>

\* The context goes, and its pages with it.
ContextCloses ==
    /\ ~p_shutting_down /\ p_context = "open"
    /\ p_context' = "closed" /\ p_page' = "closed" /\ p_other_pages' = <<>>
    /\ UNCHANGED <<p_browser, p_url, p_shutting_down, p_home_url, p_gotos,
                   p_call, p_result, non_playwright_vars>>

\* The user quits the browser.
UserClosesBrowser ==
    /\ ~p_shutting_down /\ p_browser = "open"
    /\ p_browser' = "closed" /\ p_context' = "closed"
    /\ p_page' = "closed" /\ p_other_pages' = <<>>
    /\ UNCHANGED <<p_url, p_shutting_down, p_home_url, p_gotos, p_call,
                   p_result, non_playwright_vars>>

\* __exit__: shutdown mode, then page, context and browser are closed.
PwExit ==
    /\ ~p_shutting_down
    /\ p_shutting_down' = TRUE
    /\ p_browser' = "closed" /\ p_context' = "closed"
    /\ p_page' = "closed" /\ p_other_pages' = <<>>
    /\ p_call' = Call("__exit__", NoKeys, "", "ok", FALSE)
    /\ p_result' = [raised |-> FALSE, value |-> NoValue, page_calls |-> <<>>]
    /\ UNCHANGED <<p_url, p_home_url, p_gotos, non_playwright_vars>>

NextPlaywright ==
    \/ PwScreenshot
    \/ PwGoto
    \/ UserClosesPage
    \/ UserOpensPage
    \/ ContextCloses
    \/ UserClosesBrowser
    \/ PwExit

SpecPlaywright == PlaywrightInit /\ [][NextPlaywright]_vars

NextKeypress ==
    \/ PwKeypress
    \/ UserClosesPage
    \/ UserOpensPage
    \/ ContextCloses
    \/ UserClosesBrowser
    \/ PwExit

SpecKeypress == PlaywrightInit /\ [][NextKeypress]_vars

\* ------------------------------------------------------------------
\* Claims about BasePlaywrightComputer.
\* ------------------------------------------------------------------

\* The keys of the last keypress call normalize to exactly Control plus R.
NormalizesToControlR ==
    LET mapped == NormalizeAll(SelectSeq(p_call.keys, IsTruthyKey))
    IN  /\ Range(SelectSeq(mapped, IsMod)) = {KeyControl}
        /\ SelectSeq(mapped, IsNonMod) = <<<<"R">>>>

\* C38: a keypress whose keys normalize to exactly Control plus "R", made
\* on an open page, reloads the page (page.reload) and presses no key
\* chord.
C38_ControlRReloads ==
    (p_call.op = "keypress" /\ NormalizesToControlR /\ ~p_result.raised)
        => p_result.page_calls = <<PageCall("reload", <<>>)>>

\* What the code does with such keys: it presses the chord of the
\* modifiers and R, and never calls page.reload.
C38_ControlRPressesChord ==
    (p_call.op = "keypress" /\ NormalizesToControlR /\ ~p_result.raised)
        => /\ Len(p_result.page_calls) = 1
           /\ p_result.page_calls[1].op = "press"
           /\ p_result.page_calls[1].arg \in
                {KeyControl \o <<"+", "R">>,
                 KeyControl \o <<"+">> \o KeyControl \o <<"+", "R">>}

\* The first non-blank URL of a list of URLs, "" when there is none.
RECURSIVE FirstNonBlank(_)
FirstNonBlank(urls) ==
    IF urls = <<>> THEN ""
    ELSE IF Head(urls) # "" /\ Head(urls) # Blank THEN Head(urls)
    ELSE FirstNonBlank(Tail(urls))

RECURSIVE LastNonBlank(_)
LastNonBlank(urls) ==
    IF urls = <<>> THEN ""
    ELSE IF urls[Len(urls)] # "" /\ urls[Len(urls)] # Blank
         THEN urls[Len(urls)]
    ELSE LastNonBlank(SubSeq(urls, 1, Len(urls) - 1))

\* C39: after any sequence of goto calls, the home URL used for recovery
\* is the first non-blank URL ever passed to goto; later goto calls do
\* not change it.
C39_HomeIsFirstNonBlank ==
    FirstNonBlank(p_gotos) # "" => p_home_url = FirstNonBlank(p_gotos)

\* What the code keeps: the last non-blank URL passed to goto.
C39_HomeIsLastNonBlank ==
    p_home_url = IF LastNonBlank(p_gotos) # "" THEN LastNonBlank(p_gotos)
                 ELSE Blank

Pngs == {BlankPng} \cup {page_screenshot(u) : u \in Urls}
Base64Pngs == {b64encode(png) : png \in Pngs}

\* No capture was possible in the last call: the capture failed, or the
\* call never got as far as a page that could be captured.
NoCapturePossible == p_call.page_fails \/ p_result.page_calls = <<>>

\* C40: screenshot never raises: whatever the state of browser, context
\* and page (closed, shutting down, capture failing) it returns a base64
\* PNG string, the 1x1 blank PNG when no real capture is possible.
C40_ScreenshotNeverRaises ==
    p_call.op = "screenshot"
        => /\ ~p_result.raised
           /\ p_result.value \in Base64Pngs
           /\ NoCapturePossible => p_result.value = _BLANK_PNG_B64

\* A screenshot asked for while the browser was closed and could not be
\* relaunched came back as the blank PNG.
C40_Witness ==
    /\ p_call.op = "screenshot"
    /\ p_call.recovery = "launch_fails"
    /\ p_browser = "closed"
    /\ ~p_shutting_down
    /\ p_result.value = _BLANK_PNG_B64

====
